---- MODULE Spec2Model ----
(***************************************************************************)
(* Model of the diagnosis-quiz-tool core: the progression engine           *)
(* (src/modules/progression.py, class UserProgress) and the scoring        *)
(* session (src/modules/scoring.py, class Scoring).                        *)
(*                                                                         *)
(* Conventions.                                                            *)
(*  - now is what datetime.now() returns: [day, sec], the calendar day    *)
(*    and the second of that day.  The progression engine reads only the   *)
(*    .date() of the datetimes it stores, so it stores the day; a None     *)
(*    date is the day NoDate.                                              *)
(*  - streak_multiplier is kept in hundredths (1.25 is 125).               *)
(*  - a float quotient a / b * 100 is kept as the pair <<a, b>> of the     *)
(*    integers it was computed from; the places where IEEE rounding        *)
(*    changes a result are modelled explicitly (FloatTruncLoss).           *)
(***************************************************************************)
EXTENDS Integers, Sequences, FiniteSets, TLC

VARIABLES
    progress,          \* the UserProgress object (its mutable fields)
    achievements,      \* UserProgress.achievements: the loaded catalog
    difficulty_tiers,  \* UserProgress.difficulty_tiers: the loaded tier table
    now,               \* the wall clock read by datetime.now()
    scoring,           \* the Scoring object (its mutable fields)
    last_call,         \* the last operation called, its arguments and outcome
    calls,             \* number of calls made that are counted (XP grants, quizzes)
    generator,         \* the QuizGenerator object and the data its loader holds
    random,            \* the state of the generator of Python's random module
    frames             \* the generate_quiz calls in flight, by thread

vars == <<progress, achievements, difficulty_tiers, now, scoring, last_call, calls,
          generator, random, frames>>

---------------------------------------------------------------------------
(* Bounds of the model *)

MaxCalls == 2            \* direct add_xp, award, proficiency and metrics calls
MaxStreak == 10          \* current streak, next to the other operations
MaxLongStreak == 21      \* current streak, in the streak's own specification
MaxDay == 2              \* calendar days the clock runs through
MaxXp == 4000000         \* total XP
MaxScorings == 2         \* calculate_scores calls with a UserProgress attached
MaxSec == 1              \* seconds the clock runs through within a session
MaxQuestionNumber == 2   \* question numbers passed are 0..MaxQuestionNumber
MaxPractised == 2        \* update_specialty_proficiency calls before a quiz
MaxCases == 22           \* update_performance_metrics calls of one user
MaxWrong == 2            \* wrong results among them
MaxDistractors == 7      \* distractors asked of _generate_distractors
MaxPractice == 5         \* update_specialty_proficiency calls for one category

(* Program constants *)

NoDate == -1
BaseXp == 100
StreakAchievementAt == 10
ProficiencyLevelCap == 10
RecentWindow == 20
TrendMinEntries == 10
SecondsPerDay == 86400
MinSessionXp == 10
FastCaseSeconds == 120
FastCasesNeeded == 5
PerfectSessionQuestions == 5

---------------------------------------------------------------------------
(* Inputs *)

Categories == {"Depressive Disorders", "mood_disorders"}
XpAmounts == {100, 150, 7486, 3366612}

Reqs(c, a) == [count |-> c, min_accuracy |-> a]
Ach(xp, c, a) == [xp_reward |-> xp, requirements |-> Reqs(c, a)]

(* The catalog loaded from achievements.json: absent, a usual one, and one *)
(* whose rewards are large enough to level the user up inside an award.    *)
CatalogNone == [i \in {} |-> Ach(0, 0, 0)]
CatalogUsual ==
    [i \in {"level_10", "level_25", "level_50", "perfect_streak", "first_case",
            "speed_demon", "perfectionist", "depressive_disorders_master"} |->
        CASE i = "level_10" -> Ach(500, 0, 0)
          [] i = "level_25" -> Ach(1000, 0, 0)
          [] i = "level_50" -> Ach(2500, 0, 0)
          [] i = "perfect_streak" -> Ach(200, 0, 0)
          [] i = "first_case" -> Ach(25, 0, 0)
          [] i = "speed_demon" -> Ach(150, 0, 0)
          [] i = "perfectionist" -> Ach(100, 0, 0)
          [] OTHER -> Ach(300, 2, 50)]
CatalogCascade ==
    [i \in {"level_10", "level_25", "perfect_streak", "first_case",
            "speed_demon", "perfectionist", "depressive_disorders_master"} |->
        CASE i = "level_10" -> Ach(3359126, 0, 0)
          [] i = "level_25" -> Ach(100, 0, 0)
          [] i = "perfect_streak" -> Ach(7486, 0, 0)
          [] i = "first_case" -> Ach(100, 0, 0)
          [] i = "speed_demon" -> Ach(100, 0, 0)
          [] i = "perfectionist" -> Ach(7486, 0, 0)
          [] OTHER -> Ach(7486, 1, 100)]

AwardIds == {"level_10", "first_case", "perfectionist", "no_such_achievement"}

(* The tier table loaded from difficulty_tiers.json: tier -> level         *)
(* requirement (tier_data.get('level_requirement', 1)); absent is empty.   *)
TiersNone == [t \in {} |-> 1]
TiersUsual ==
    [t \in {"beginner", "intermediate", "advanced", "expert", "easy"} |->
        CASE t = "beginner" -> 1
          [] t = "intermediate" -> 2
          [] t = "advanced" -> 10
          [] t = "expert" -> 25
          [] OTHER -> 1]

(* <<achievements, difficulty_tiers>> as loaded by __init__ *)
Configs == { <<CatalogNone, TiersNone>>, <<CatalogUsual, TiersUsual>>,
             <<CatalogCascade, TiersUsual>> }

---------------------------------------------------------------------------
(* Sequence helpers *)

RECURSIVE SumSeq(_)
SumSeq(s) == IF s = <<>> THEN 0 ELSE Head(s) + SumSeq(Tail(s))

SeqRange(s) == {s[i] : i \in DOMAIN s}

EarnedIds(p) == {p.earned_achievements[i].achievement_id :
                    i \in DOMAIN p.earned_achievements}

---------------------------------------------------------------------------
(* Leveling curve *)

(* 100 * 1.5 ** k as <<q, r, d>> with 100 * 1.5^k = q + r/d, 0 <= r < d,   *)
(* d = 2^k.  The double product is exact while 100 * 3^k < 2^53 (k <= 28), *)
(* so int() of it is q.                                                    *)
RECURSIVE Pow15(_)
Pow15(k) ==
    IF k = 0 THEN <<BaseXp, 0, 1>>
    ELSE LET p == Pow15(k - 1)
             a == (3 * p[1]) \div 2
             b == (3 * p[1]) % 2
             n == b * p[3] + 3 * p[2]
         IN  <<a + (n \div (2 * p[3])), n % (2 * p[3]), 2 * p[3]>>

(* int(100 * (1.5 ** (level - 1))) for level 1..30 *)
XpTable ==
    << 100, 150, 225, 337, 506, 759, 1139, 1708, 2562, 3844, 5766, 8649,
       12974, 19461, 29192, 43789, 65684, 98526, 147789, 221683, 332525,
       498788, 748182, 1122274, 1683411, 2525116, 3787675, 5681512,
       8522269, 12783403 >>

XpNeeded(lvl) == XpTable[lvl]

_calculate_xp_for_next_level(lvl) == XpNeeded(lvl)

RECURSIVE LevelLoop(_, _, _)
LevelLoop(total_xp, lvl, xp_needed) ==
    IF total_xp >= xp_needed
    THEN LevelLoop(total_xp - xp_needed, lvl + 1, XpNeeded(lvl + 1))
    ELSE lvl

(* A faulty variant: a level is gained only when the XP exceeds the        *)
(* threshold.                                                              *)
RECURSIVE LevelLoopStrict(_, _, _)
LevelLoopStrict(total_xp, lvl, xp_needed) ==
    IF total_xp > xp_needed
    THEN LevelLoopStrict(total_xp - xp_needed, lvl + 1, XpNeeded(lvl + 1))
    ELSE lvl

calculate_level_from_xp_strict(total_xp) == LevelLoopStrict(total_xp, 1, BaseXp)

_calculate_level_from_xp(total_xp) == LevelLoop(total_xp, 1, BaseXp)

---------------------------------------------------------------------------
(* Unlocks, achievements and XP.  add_xp, _check_level_achievements and    *)
(* award_achievement call each other; each takes the UserProgress value p  *)
(* and the clock t and returns the new value with the call's result.       *)

(* A faulty variant: a tier needs a level above its requirement. *)
update_level_unlocks_strict(p) ==
    IF DOMAIN difficulty_tiers = {} THEN p
    ELSE [p EXCEPT !.unlock_status.unlocked_difficulties =
              @ \cup {t \in DOMAIN difficulty_tiers : p.level > difficulty_tiers[t]}]

_update_level_unlocks(p) ==
    IF DOMAIN difficulty_tiers = {} THEN p
    ELSE [p EXCEPT !.unlock_status.unlocked_difficulties =
              @ \cup {t \in DOMAIN difficulty_tiers : p.level >= difficulty_tiers[t]}]

(* A faulty variant: each milestone is one level late. *)
level_achievements_late ==
    << <<11, "level_10">>, <<26, "level_25">>, <<51, "level_50">> >>

level_achievements ==
    << <<10, "level_10">>, <<25, "level_25">>, <<50, "level_50">> >>

RECURSIVE add_xp(_, _, _)
RECURSIVE CheckLevelLoop(_, _, _, _)
RECURSIVE award_achievement(_, _, _)

(* A faulty variant: an achievement already earned grants its XP again. *)
award_achievement_regrant(p, achievement_id, t) ==
    IF achievement_id \notin DOMAIN achievements
    THEN [p |-> p, ret |-> FALSE]
    ELSE IF achievement_id \in EarnedIds(p)
    THEN [p |-> add_xp(p, achievements[achievement_id].xp_reward, t).p,
          ret |-> FALSE]
    ELSE LET xp == achievements[achievement_id].xp_reward
             p1 == [p EXCEPT !.earned_achievements =
                        Append(@, [achievement_id |-> achievement_id,
                                   earned_at |-> t.day,
                                   xp_awarded |-> xp])]
             p2 == add_xp(p1, xp, t).p
             p3 == [p2 EXCEPT !.unlock_status.achievement_based_unlocks =
                        [i \in DOMAIN @ \cup {achievement_id} |->
                            IF i = achievement_id THEN t.day ELSE @[i]]]
         IN  [p |-> p3, ret |-> TRUE]

(* A faulty variant: no check that the achievement is already earned. *)
award_achievement_unchecked(p, achievement_id, t) ==
    IF achievement_id \notin DOMAIN achievements
    THEN [p |-> p, ret |-> FALSE]
    ELSE LET xp == achievements[achievement_id].xp_reward
             p1 == [p EXCEPT !.earned_achievements =
                        Append(@, [achievement_id |-> achievement_id,
                                   earned_at |-> t.day,
                                   xp_awarded |-> xp])]
             p2 == add_xp(p1, xp, t).p
             p3 == [p2 EXCEPT !.unlock_status.achievement_based_unlocks =
                        [i \in DOMAIN @ \cup {achievement_id} |->
                            IF i = achievement_id THEN t.day ELSE @[i]]]
         IN  [p |-> p3, ret |-> TRUE]

award_achievement(p, achievement_id, t) ==
    IF achievement_id \notin DOMAIN achievements
    THEN [p |-> p, ret |-> FALSE]
    ELSE IF achievement_id \in EarnedIds(p)
    THEN [p |-> p, ret |-> FALSE]
    ELSE LET xp == achievements[achievement_id].xp_reward
             p1 == [p EXCEPT !.earned_achievements =
                        Append(@, [achievement_id |-> achievement_id,
                                   earned_at |-> t.day,
                                   xp_awarded |-> xp])]
             p2 == add_xp(p1, xp, t).p
             p3 == [p2 EXCEPT !.unlock_status.achievement_based_unlocks =
                        [i \in DOMAIN @ \cup {achievement_id} |->
                            IF i = achievement_id THEN t.day ELSE @[i]]]
         IN  [p |-> p3, ret |-> TRUE]

CheckLevelLoop(p, i, new_achievements, t) ==
    IF i > Len(level_achievements) THEN [p |-> p, new |-> new_achievements]
    ELSE LET level_req == level_achievements[i][1]
             achievement_id == level_achievements[i][2]
         IN  IF p.level >= level_req /\ achievement_id \notin EarnedIds(p)
             THEN LET r == award_achievement(p, achievement_id, t)
                  IN  CheckLevelLoop(r.p, i + 1,
                          IF r.ret THEN Append(new_achievements, achievement_id)
                                   ELSE new_achievements, t)
             ELSE CheckLevelLoop(p, i + 1, new_achievements, t)

_check_level_achievements(p, t) == CheckLevelLoop(p, 1, <<>>, t)

add_xp(p, xp_amount, t) ==
    LET old_level == p.level
        total == p.total_xp + xp_amount
        lvl == _calculate_level_from_xp(total)
        p1 == [p EXCEPT !.total_xp = total,
                        !.level = lvl,
                        !.xp_to_next_level = _calculate_xp_for_next_level(lvl)]
        leveled_up == lvl > old_level
    IN  IF leveled_up
        THEN LET r == _check_level_achievements(p1, t)
             IN  [p |-> _update_level_unlocks(r.p), leveled_up |-> TRUE,
                  new_achievements |-> r.new]
        ELSE [p |-> p1, leveled_up |-> FALSE, new_achievements |-> <<>>]

---------------------------------------------------------------------------
(* Streak *)

(* A faulty variant: the 1.25 tier starts above 5. *)
calculate_streak_multiplier_late(streak) ==
    IF streak >= 20 THEN 200
    ELSE IF streak >= 15 THEN 175
    ELSE IF streak >= 10 THEN 150
    ELSE IF streak > 5 THEN 125
    ELSE IF streak >= 3 THEN 110
    ELSE 100

_calculate_streak_multiplier(streak) ==
    IF streak >= 20 THEN 200
    ELSE IF streak >= 15 THEN 175
    ELSE IF streak >= 10 THEN 150
    ELSE IF streak >= 5 THEN 125
    ELSE IF streak >= 3 THEN 110
    ELSE 100

_check_streak_achievements(p, t) ==
    IF p.streak_data.current_streak >= StreakAchievementAt
    THEN award_achievement(p, "perfect_streak", t).p
    ELSE p

(* A faulty variant: a correct answer on the next day breaks the streak. *)
StreakBrokenNextDay(s, t) ==
    s.last_correct_date # NoDate /\ t.day - s.last_correct_date >= 1

(* The streak is broken: the last correct answer is more than a day old. *)
StreakBroken(s, t) ==
    s.last_correct_date # NoDate /\ t.day - s.last_correct_date > 1

(* A faulty variant: a wrong answer forgets the longest streak too. *)
StreakResetAll(s) ==
    [s EXCEPT !.current_streak = 0, !.longest_streak = 0,
              !.streak_multiplier = 100]

(* A faulty variant: a wrong answer leaves the current streak. *)
StreakKept(s) == [s EXCEPT !.streak_multiplier = 100]

(* The branch of update_streak for a wrong answer. *)
StreakReset(s) ==
    [s EXCEPT !.current_streak = 0, !.streak_multiplier = 100]

update_streak(p, is_correct, t) ==
    IF is_correct
    THEN LET s0 == p.streak_data
             broken == StreakBroken(s0, t)
             s1 == IF broken
                   THEN [s0 EXCEPT !.current_streak = 0, !.streak_start_date = t.day]
                   ELSE s0
             s2 == [s1 EXCEPT !.current_streak = @ + 1, !.last_correct_date = t.day]
             s3 == IF s2.current_streak = 1
                   THEN [s2 EXCEPT !.streak_start_date = t.day]
                   ELSE s2
             s4 == IF s3.current_streak > s3.longest_streak
                   THEN [s3 EXCEPT !.longest_streak = s3.current_streak]
                   ELSE s3
             s5 == [s4 EXCEPT !.streak_multiplier =
                        _calculate_streak_multiplier(s4.current_streak)]
         IN  _check_streak_achievements([p EXCEPT !.streak_data = s5], t)
    ELSE [p EXCEPT !.streak_data = StreakReset(@)]

---------------------------------------------------------------------------
(* Specialty proficiency.  accuracy is the float (c / n) * 100, kept as    *)
(* <<c, n>>.  The code rebuilds the correct count as                       *)
(* int(accuracy * (n' - 1) / 100) with n' - 1 = n; in IEEE doubles that is *)
(* c - 1 instead of c exactly for the pairs of FloatTruncLoss (all pairs   *)
(* with n <= 16), e.g. int(33.33333333333333 * 3 / 100) = 0.  For          *)
(* n <= 16 the comparisons and int(accuracy / 10) agree with the exact     *)
(* quotient.                                                               *)

FloatTruncLoss ==
    { <<1, 3>>, <<2, 3>>, <<1, 6>>, <<2, 6>>, <<4, 6>>, <<3, 9>>, <<6, 9>>,
      <<3, 11>>, <<6, 11>>, <<1, 12>>, <<2, 12>>, <<4, 12>>, <<8, 12>>,
      <<5, 15>>, <<10, 15>> }

ReconstructCorrect(accuracy) ==
    IF accuracy \in FloatTruncLoss THEN accuracy[1] - 1 ELSE accuracy[1]

(* accuracy >= threshold, for accuracy = <<c, n>> and an integer threshold *)
AccuracyAtLeast(accuracy, threshold) ==
    IF accuracy[2] = 0 THEN 0 >= threshold
    ELSE accuracy[1] * 100 >= threshold * accuracy[2]

(* int(accuracy / 10) *)
AccuracyTens(accuracy) ==
    IF accuracy[2] = 0 THEN 0 ELSE (accuracy[1] * 10) \div accuracy[2]

specialty_achievements ==
    [c \in {"Depressive Disorders",
            "Schizophrenia Spectrum and Other Psychotic Disorders",
            "Anxiety Disorders"} |->
        CASE c = "Depressive Disorders" -> "depressive_disorders_master"
          [] c = "Anxiety Disorders" -> "anxiety_disorders_specialist"
          [] OTHER -> "schizophrenia_spectrum_expert"]

_check_specialty_achievements(p, category, t) ==
    IF category \notin DOMAIN p.specialties THEN p
    ELSE IF category \notin DOMAIN specialty_achievements THEN p
    ELSE LET achievement_id == specialty_achievements[category]
             proficiency == p.specialties[category]
         IN  IF achievement_id \notin DOMAIN achievements THEN p
             ELSE LET reqs == achievements[achievement_id].requirements
                  IN  IF proficiency.cases_completed >= reqs.count
                         /\ AccuracyAtLeast(proficiency.accuracy, reqs.min_accuracy)
                      THEN award_achievement(p, achievement_id, t).p
                      ELSE p

update_specialty_proficiency(p, category, is_correct, time_taken, xp_earned, t) ==
    LET old == IF category \in DOMAIN p.specialties
               THEN p.specialties[category]
               ELSE [level |-> 1, cases_completed |-> 0, accuracy |-> <<0, 0>>,
                     xp_earned |-> 0, last_practiced |-> t.day]
        n == old.cases_completed + 1
        correct_count == ReconstructCorrect(old.accuracy)
                         + (IF is_correct THEN 1 ELSE 0)
        acc == <<correct_count, n>>
        new == [level |-> IF AccuracyTens(acc) + 1 < ProficiencyLevelCap
                          THEN AccuracyTens(acc) + 1 ELSE ProficiencyLevelCap,
                cases_completed |-> n,
                accuracy |-> acc,
                xp_earned |-> old.xp_earned + xp_earned,
                last_practiced |-> t.day]
        p1 == [p EXCEPT !.specialties =
                   [c \in DOMAIN @ \cup {category} |->
                       IF c = category THEN new ELSE @[c]]]
    IN  _check_specialty_achievements(p1, category, t)

---------------------------------------------------------------------------
(* Performance metrics.  overall_accuracy is <<correct, total>>;           *)
(* average_time_per_case is <<sum of times, total>> (the running mean      *)
(* (avg * (n - 1) + t) / n); improvement_trend is <<numerator,             *)
(* denominator>> of second_avg - first_avg.                                *)

BumpPerf(perf, key, is_correct, time_taken) ==
    LET old == IF key \in DOMAIN perf THEN perf[key]
               ELSE [total |-> 0, correct |-> 0, total_time |-> 0]
        new == [total |-> old.total + 1,
                correct |-> old.correct + (IF is_correct THEN 1 ELSE 0),
                total_time |-> old.total_time + time_taken]
    IN  [k \in DOMAIN perf \cup {key} |-> IF k = key THEN new ELSE perf[k]]

_calculate_improvement_trend(recent) ==
    IF Len(recent) < TrendMinEntries THEN <<0, 1>>
    ELSE LET mid == Len(recent) \div 2
             first_half == SubSeq(recent, 1, mid)
             second_half == SubSeq(recent, mid + 1, Len(recent))
             first_sum == SumSeq([i \in DOMAIN first_half |-> first_half[i].accuracy])
             second_sum == SumSeq([i \in DOMAIN second_half |-> second_half[i].accuracy])
         IN  <<second_sum * Len(first_half) - first_sum * Len(second_half),
               Len(first_half) * Len(second_half)>>

(* A faulty variant: a full window drops the result just appended. *)
evict_newest(appended) ==
    IF Len(appended) > RecentWindow
    THEN SubSeq(appended, 1, RecentWindow) ELSE appended

(* if len(recent_performance) > 20: recent_performance.pop(0) *)
evict_oldest(appended) ==
    IF Len(appended) > RecentWindow THEN Tail(appended) ELSE appended

update_performance_metrics(p, case_result, t) ==
    LET m == p.performance_metrics
        total == m.total_cases + 1
        correct == m.correct_diagnoses + (IF case_result.is_correct THEN 1 ELSE 0)
        appended == Append(m.recent_performance,
                        [accuracy |-> IF case_result.is_correct THEN 100 ELSE 0,
                         time_taken |-> case_result.time_taken,
                         category |-> case_result.category,
                         difficulty |-> case_result.difficulty])
        recent == evict_oldest(appended)
    IN  [p EXCEPT !.performance_metrics =
            [total_cases |-> total,
             correct_diagnoses |-> correct,
             overall_accuracy |-> <<correct, total>>,
             average_time_per_case |->
                 <<m.average_time_per_case[1] + case_result.time_taken, total>>,
             category_performance |->
                 BumpPerf(m.category_performance, case_result.category,
                          case_result.is_correct, case_result.time_taken),
             difficulty_performance |->
                 BumpPerf(m.difficulty_performance, case_result.difficulty,
                          case_result.is_correct, case_result.time_taken),
             recent_performance |-> recent,
             improvement_trend |-> _calculate_improvement_trend(recent)]]

---------------------------------------------------------------------------
(* Adaptive difficulty.  The means sum(...) / len(...) are compared as the
   sums against the threshold times the length. *)

(* A faulty variant: the tier of the thresholds, unlocked or not. *)
adaptive_difficulty_ignoring_unlocks(p, recent_performance) ==
    LET n == Len(recent_performance)
        accuracy == SumSeq([i \in 1..n |-> recent_performance[i].accuracy])
        time == SumSeq([i \in 1..n |-> recent_performance[i].time_taken])
    IN  IF n = 0 THEN "beginner"
        ELSE IF accuracy >= 90 * n /\ time < 120 * n THEN "expert"
        ELSE IF accuracy >= 75 * n THEN "advanced"
        ELSE IF accuracy >= 60 * n THEN "intermediate"
        ELSE "beginner"

calculate_adaptive_difficulty(p, recent_performance) ==
    LET n == Len(recent_performance)
        recent_accuracy ==
            SumSeq([i \in 1..n |-> recent_performance[i].accuracy])
        recent_avg_time ==
            SumSeq([i \in 1..n |-> recent_performance[i].time_taken])
        unlocked == p.unlock_status.unlocked_difficulties
    IN  IF n = 0 THEN "beginner"
        ELSE IF recent_accuracy >= 90 * n /\ recent_avg_time < 120 * n
        THEN IF "expert" \in unlocked THEN "expert"
             ELSE IF "advanced" \in unlocked THEN "advanced"
             ELSE IF "intermediate" \in unlocked THEN "intermediate"
             ELSE "beginner"
        ELSE IF recent_accuracy >= 75 * n
        THEN IF "advanced" \in unlocked THEN "advanced"
             ELSE IF "intermediate" \in unlocked THEN "intermediate"
             ELSE "beginner"
        ELSE IF recent_accuracy >= 60 * n
        THEN IF "intermediate" \in unlocked THEN "intermediate"
             ELSE "beginner"
        ELSE "beginner"

---------------------------------------------------------------------------
(* UserProgress.__init__ *)

NewUserProgress ==
    [level |-> 1,
     total_xp |-> 0,
     xp_to_next_level |-> _calculate_xp_for_next_level(1),
     earned_achievements |-> <<>>,
     specialties |-> [c \in {} |-> 0],
     streak_data |-> [current_streak |-> 0, longest_streak |-> 0,
                      streak_start_date |-> NoDate, last_correct_date |-> NoDate,
                      streak_multiplier |-> 100],
     performance_metrics |->
         [total_cases |-> 0, correct_diagnoses |-> 0, overall_accuracy |-> <<0, 0>>,
          average_time_per_case |-> <<0, 0>>,
          category_performance |-> [c \in {} |-> 0],
          difficulty_performance |-> [c \in {} |-> 0],
          recent_performance |-> <<>>,
          improvement_trend |-> <<0, 1>>],
     unlock_status |-> [unlocked_difficulties |-> {"beginner"},
                        achievement_based_unlocks |-> [i \in {} |-> 0]]]


---------------------------------------------------------------------------
(* Scoring.  An Optional value is a sequence: <<>> is None, <<v>> is v.    *)
(* A quiz is [keys, questions_is_list, questions]; keys are the keys the   *)
(* dictionary has, and a question carries the keys it has and the values   *)
(* the scoring reads.  The scoring mode modelled is ScoringMode.STRICT,    *)
(* where a score is 0 or 1.                                                *)

QuizKeys == {"quiz_metadata", "questions"}

QuestionKeys ==
    {"question_number", "case_id", "question_text", "options",
     "correct_answer", "correct_index", "case_metadata"}

Question(n, answer, category, complexity) ==
    [keys |-> QuestionKeys, question_number |-> n, correct_answer |-> answer,
     category |-> category, complexity |-> complexity]

Quiz(questions) ==
    [keys |-> QuizKeys, questions_is_list |-> TRUE, questions |-> questions]

(* str.strip().lower() on the strings of the model *)
StripLower(str) ==
    CASE str = "Major Depressive Disorder" -> "major depressive disorder"
      [] str = " major depressive disorder " -> "major depressive disorder"
      [] str = "Generalized Anxiety Disorder" -> "generalized anxiety disorder"
      [] OTHER -> str

EmptyDict == [k \in {} |-> 0]

(* Scoring.__init__ *)
NewScoring(user_progress) ==
    [scoring_mode |-> "strict",
     quiz_data |-> <<>>,
     user_answers |-> EmptyDict,
     question_results |-> <<>>,
     session_start_time |-> <<>>,
     question_start_times |-> EmptyDict,
     diagnosis_similarity_cache |-> {},
     user_progress |-> user_progress,
     session_xp_earned |-> 0,
     achievements_awarded |-> <<>>]

(* The error _validate_quiz_data raises, "None" if it returns. *)
_validate_quiz_data(quiz_data) ==
    IF ~(QuizKeys \subseteq quiz_data.keys) THEN "missing_required_key"
    ELSE IF ~quiz_data.questions_is_list THEN "questions_not_a_list"
    ELSE IF Len(quiz_data.questions) = 0 THEN "no_questions"
    ELSE IF \E i \in DOMAIN quiz_data.questions :
                ~(QuestionKeys \subseteq quiz_data.questions[i].keys)
    THEN "question_missing_key"
    ELSE "None"

(* A faulty variant: the quiz is installed before it is validated. *)
start_quiz_session_install_first(s, quiz_data, t) ==
    LET err == _validate_quiz_data(quiz_data)
        s1 == [s EXCEPT !.quiz_data = <<quiz_data>>,
                        !.user_answers = EmptyDict,
                        !.question_results = <<>>,
                        !.session_start_time = <<t>>,
                        !.question_start_times = EmptyDict,
                        !.diagnosis_similarity_cache = {}]
    IN  [s |-> s1, raised |-> err]

start_quiz_session(s, quiz_data, t) ==
    LET err == _validate_quiz_data(quiz_data)
    IN  IF err # "None" THEN [s |-> s, raised |-> err]
        ELSE [s |-> [s EXCEPT !.quiz_data = <<quiz_data>>,
                              !.user_answers = EmptyDict,
                              !.question_results = <<>>,
                              !.session_start_time = <<t>>,
                              !.question_start_times = EmptyDict,
                              !.diagnosis_similarity_cache = {}],
              raised |-> "None"]

(* (t - t0).total_seconds() *)
TotalSeconds(t, t0) == (t.day - t0.day) * SecondsPerDay + (t.sec - t0.sec)

(* A faulty variant: the question number is not checked. *)
record_answer_unchecked(s, question_number, user_answer, answer_time, t) ==
    IF s.quiz_data = <<>> THEN [s |-> s, raised |-> "session_not_started"]
    ELSE LET time_spent ==
                 IF answer_time = <<>>
                 THEN IF question_number \in DOMAIN s.question_start_times
                      THEN TotalSeconds(t, s.question_start_times[question_number])
                      ELSE 0
                 ELSE answer_time[1]
         IN  [s |-> [s EXCEPT !.user_answers =
                        [q \in DOMAIN @ \cup {question_number} |->
                            IF q = question_number
                            THEN [answer |-> user_answer,
                                  time_spent |-> time_spent]
                            ELSE @[q]]],
              raised |-> "None"]

record_answer(s, question_number, user_answer, answer_time, t) ==
    IF s.quiz_data = <<>> THEN [s |-> s, raised |-> "session_not_started"]
    ELSE IF question_number < 1
            \/ question_number > Len(s.quiz_data[1].questions)
    THEN [s |-> s, raised |-> "invalid_question_number"]
    ELSE LET time_spent ==
                 IF answer_time = <<>>
                 THEN IF question_number \in DOMAIN s.question_start_times
                      THEN TotalSeconds(t, s.question_start_times[question_number])
                      ELSE 0
                 ELSE answer_time[1]
         IN  [s |-> [s EXCEPT !.user_answers =
                        [q \in DOMAIN @ \cup {question_number} |->
                            IF q = question_number
                            THEN [answer |-> user_answer,
                                  time_spent |-> time_spent]
                            ELSE @[q]]],
              raised |-> "None"]

(* A faulty variant: the timer starts without a session. *)
start_question_timer_unguarded(s, question_number, t) ==
    [s |-> [s EXCEPT !.question_start_times =
               [q \in DOMAIN @ \cup {question_number} |->
                   IF q = question_number THEN t ELSE @[q]]],
     raised |-> "None"]

start_question_timer(s, question_number, t) ==
    IF s.quiz_data = <<>> THEN [s |-> s, raised |-> "session_not_started"]
    ELSE [s |-> [s EXCEPT !.question_start_times =
                    [q \in DOMAIN @ \cup {question_number} |->
                        IF q = question_number THEN t ELSE @[q]]],
          raised |-> "None"]

_evaluate_strict(user_answer, correct_answer) ==
    LET is_correct == StripLower(user_answer) = StripLower(correct_answer)
    IN  [is_correct |-> is_correct, score |-> IF is_correct THEN 1 ELSE 0]

_evaluate_question(question, user_answer_data) ==
    LET e == _evaluate_strict(user_answer_data.answer, question.correct_answer)
    IN  [question_number |-> question.question_number,
         user_answer |-> <<user_answer_data.answer>>,
         correct_answer |-> question.correct_answer,
         is_correct |-> e.is_correct,
         score |-> e.score,
         time_spent |-> user_answer_data.time_spent,
         category |-> question.category,
         complexity |-> question.complexity]

_create_unanswered_result(question) ==
    [question_number |-> question.question_number,
     user_answer |-> <<>>,
     correct_answer |-> question.correct_answer,
     is_correct |-> FALSE,
     score |-> 0,
     time_spent |-> 0,
     category |-> question.category,
     complexity |-> question.complexity]

(* A faulty variant: questions without an answer get no result. *)
RECURSIVE EvaluateAnswered(_, _, _)
EvaluateAnswered(s, questions, i) ==
    IF i > Len(questions) THEN <<>>
    ELSE LET q_num == questions[i].question_number
         IN  (IF q_num \notin DOMAIN s.user_answers THEN <<>>
              ELSE <<_evaluate_question(questions[i], s.user_answers[q_num])>>)
             \o EvaluateAnswered(s, questions, i + 1)

evaluate_answered_questions(s) ==
    EvaluateAnswered(s, s.quiz_data[1].questions, 1)

(* The new question_results. *)
_evaluate_all_questions(s) ==
    LET questions == s.quiz_data[1].questions
    IN  [i \in 1..Len(questions) |->
            LET q_num == questions[i].question_number
            IN  IF q_num \notin DOMAIN s.user_answers
                THEN _create_unanswered_result(questions[i])
                ELSE _evaluate_question(questions[i], s.user_answers[q_num])]

_calculate_complexity_performance(results) ==
    [c \in {results[i].complexity : i \in DOMAIN results} |->
        [total |-> Cardinality({i \in DOMAIN results : results[i].complexity = c}),
         correct |-> Cardinality({i \in DOMAIN results :
                                     results[i].complexity = c
                                     /\ results[i].is_correct})]]

(* percentage_score is (total_score / max_possible_score * 100), kept as   *)
(* the two sums; average_time_per_question as total_time_spent and         *)
(* total_questions.                                                        *)
_generate_performance_stats(results) ==
    LET correct == Cardinality({i \in DOMAIN results : results[i].is_correct})
    IN  [total_questions |-> Len(results),
         correct_answers |-> correct,
         incorrect_answers |-> Len(results) - correct,
         total_score |-> SumSeq([i \in DOMAIN results |-> results[i].score]),
         max_possible_score |-> Len(results),
         total_time_spent |->
             SumSeq([i \in DOMAIN results |-> results[i].time_spent]),
         complexity_performance |-> _calculate_complexity_performance(results)]

(* stats.percentage_score >= threshold *)
PercentageAtLeast(stats, threshold) ==
    IF stats.max_possible_score > 0
    THEN stats.total_score * 100 >= threshold * stats.max_possible_score
    ELSE 0 >= threshold

(* stats.average_time_per_question < limit *)
AverageTimeBelow(stats, limit) ==
    IF stats.total_questions > 0
    THEN stats.total_time_spent < limit * stats.total_questions
    ELSE 0 < limit

(* The bonuses of _calculate_session_xp on base_xp. *)
accuracy_bonus(stats, base_xp) ==
    IF PercentageAtLeast(stats, 100) THEN base_xp \div 2
    ELSE IF PercentageAtLeast(stats, 90) THEN base_xp \div 4
    ELSE IF PercentageAtLeast(stats, 80) THEN base_xp \div 10
    ELSE 0

time_bonus(stats, base_xp) ==
    IF AverageTimeBelow(stats, 30) THEN base_xp \div 5
    ELSE IF AverageTimeBelow(stats, 60) THEN base_xp \div 10
    ELSE 0

difficulty_bonus(stats, base_xp) ==
    LET cp == stats.complexity_performance
    IN  (IF "advanced" \in DOMAIN cp
            /\ cp["advanced"].correct * 100 >= 80 * cp["advanced"].total
         THEN (base_xp * 15) \div 100 ELSE 0)
        + (IF "expert" \in DOMAIN cp
              /\ cp["expert"].correct * 100 >= 70 * cp["expert"].total
           THEN base_xp \div 4 ELSE 0)

_calculate_session_xp(s, p, stats) ==
    LET base_xp == stats.total_score * 10
        streak_multiplier ==
            IF s.user_progress THEN p.streak_data.streak_multiplier ELSE 100
        total_xp == ((base_xp + accuracy_bonus(stats, base_xp)
                      + time_bonus(stats, base_xp)
                      + difficulty_bonus(stats, base_xp)) * streak_multiplier)
                    \div 100
    IN  IF total_xp > MinSessionXp THEN total_xp ELSE MinSessionXp

(* The loop of _update_progression_system over question_results. *)
RECURSIVE UpdateProgressLoop(_, _, _, _)
UpdateProgressLoop(p, results, i, t) ==
    IF i > Len(results) THEN p
    ELSE LET result == results[i]
             p1 == update_streak(p, result.is_correct, t)
             p2 == update_specialty_proficiency(p1, result.category,
                       result.is_correct, result.time_spent,
                       result.score * 10, t)
             p3 == update_performance_metrics(p2,
                       [is_correct |-> result.is_correct,
                        time_taken |-> result.time_spent,
                        category |-> result.category,
                        difficulty |-> result.complexity], t)
         IN  UpdateProgressLoop(p3, results, i + 1, t)

(* The achievements _check_session_achievements asks for, in order. *)
achievements_to_check(s, p, stats) ==
    LET fast_cases == Cardinality({i \in DOMAIN s.question_results :
                          s.question_results[i].time_spent < FastCaseSeconds
                          /\ s.question_results[i].is_correct})
    IN  (IF stats.total_questions >= 1 /\ "first_case" \notin EarnedIds(p)
         THEN <<"first_case">> ELSE <<>>)
        \o (IF fast_cases >= FastCasesNeeded
               /\ "speed_demon" \notin EarnedIds(p)
            THEN <<"speed_demon">> ELSE <<>>)
        \o (IF stats.total_score = stats.max_possible_score
               /\ stats.max_possible_score > 0
               /\ stats.total_questions >= PerfectSessionQuestions
            THEN <<"perfectionist">> ELSE <<>>)

RECURSIVE AwardLoop(_, _, _, _, _)
AwardLoop(s, p, ids, i, t) ==
    IF i > Len(ids) THEN [s |-> s, p |-> p]
    ELSE LET r == award_achievement(p, ids[i], t)
         IN  AwardLoop(IF r.ret
                       THEN [s EXCEPT !.achievements_awarded = Append(@, ids[i])]
                       ELSE s,
                       r.p, ids, i + 1, t)

_check_session_achievements(s, p, stats, t) ==
    IF ~s.user_progress THEN [s |-> s, p |-> p]
    ELSE AwardLoop(s, p, achievements_to_check(s, p, stats), 1, t)

(* A faulty variant: the streaks of the session's answers are updated
   before its XP is calculated. *)
update_progression_streaks_first(s, p, stats, t) ==
    IF ~s.user_progress THEN [s |-> s, p |-> p]
    ELSE LET p1 == UpdateProgressLoop(p, s.question_results, 1, t)
             session_xp == _calculate_session_xp(s, p1, stats)
             p2 == add_xp(p1, session_xp, t).p
             s1 == [s EXCEPT !.session_xp_earned = session_xp]
         IN  _check_session_achievements(s1, p2, stats, t)

_update_progression_system(s, p, stats, t) ==
    IF ~s.user_progress THEN [s |-> s, p |-> p]
    ELSE LET session_xp == _calculate_session_xp(s, p, stats)
             p1 == add_xp(p, session_xp, t).p
             s1 == [s EXCEPT !.session_xp_earned = session_xp]
             p2 == UpdateProgressLoop(p1, s.question_results, 1, t)
         IN  _check_session_achievements(s1, p2, stats, t)

calculate_scores(s, p, t) ==
    IF s.quiz_data = <<>>
    THEN [s |-> s, p |-> p, raised |-> "session_not_started", ret |-> <<>>]
    ELSE LET s1 == [s EXCEPT !.question_results = _evaluate_all_questions(s)]
             stats == _generate_performance_stats(s1.question_results)
             r == IF s1.user_progress
                  THEN _update_progression_system(s1, p, stats, t)
                  ELSE [s |-> s1, p |-> p]
         IN  [s |-> r.s, p |-> r.p, raised |-> "None", ret |-> <<stats>>]

reset_session(s) ==
    [s EXCEPT !.quiz_data = <<>>,
              !.user_answers = EmptyDict,
              !.question_results = <<>>,
              !.session_start_time = <<>>,
              !.question_start_times = EmptyDict,
              !.diagnosis_similarity_cache = {},
              !.session_xp_earned = 0,
              !.achievements_awarded = <<>>]

---------------------------------------------------------------------------
(* Quizzes and answers passed to the Scoring object.  The 'timestamp' of a *)
(* recorded answer is written and never read; it is left out.              *)

QuizOne ==
    Quiz(<< Question(1, "Generalized Anxiety Disorder", "anxiety_disorders",
                     "basic") >>)

QuizTwo ==
    Quiz(<< Question(1, "Major Depressive Disorder", "mood_disorders", "basic"),
            Question(2, "Generalized Anxiety Disorder", "anxiety_disorders",
                     "advanced") >>)

QuizFive ==
    Quiz([i \in 1..PerfectSessionQuestions |->
            Question(i, "Major Depressive Disorder", "Depressive Disorders",
                     IF i = 1 THEN "advanced" ELSE "basic")])

QuizNoMetadata == [QuizOne EXCEPT !.keys = {"questions"}]
QuizNoQuestions == [QuizOne EXCEPT !.keys = {"quiz_metadata"}]
QuizNotList == [QuizOne EXCEPT !.questions_is_list = FALSE]
QuizEmpty == Quiz(<<>>)
QuizBadQuestion ==
    [QuizTwo EXCEPT !.questions[2].keys = QuestionKeys \ {"correct_answer"}]

SessionQuizzes ==
    {QuizOne, QuizTwo, QuizNoMetadata, QuizNoQuestions, QuizNotList, QuizEmpty,
     QuizBadQuestion}
ScoredQuizzes == {QuizFive}

QuestionNumbers == 0..MaxQuestionNumber
TimerNumbers == {1, MaxQuestionNumber + 1}
SessionAnswers == {" major depressive disorder "}
ScoredAnswers == {"Major Depressive Disorder"}
AnswerTimes == {<<>>, <<20>>}

---------------------------------------------------------------------------
(* The operations as steps: each step is one call by the owner of the      *)
(* objects.  last_call is the call, with what it raised and returned.      *)

(* What no operation on a UserProgress or a Scoring object assigns. *)
Config == <<achievements, difficulty_tiers, generator, random>>

(* A QuizGenerator over an empty data directory. *)
NoGenerator ==
    [data_loader |-> [cases |-> <<>>, diagnoses |-> <<>>],
     user_progress |-> FALSE]

Call(op, args, raised, ret) ==
    [op |-> op, args |-> args, raised |-> raised, ret |-> ret]

NoCall == Call("__init__", <<>>, "None", <<>>)

(* No generate_quiz call is in flight. *)
NoFrames == <<>>

(* calls counts the calls that can grant XP. *)
Counted == calls < MaxCalls /\ calls' = calls + 1

DoAddXp(xp_amount) ==
    LET r == add_xp(progress, xp_amount, now)
    IN  /\ r.p.total_xp <= MaxXp
        /\ progress' = r.p
        /\ last_call' = Call("add_xp", <<xp_amount>>, "None",
                             <<r.p.total_xp, r.leveled_up, r.new_achievements>>)

DoAwardAchievement(achievement_id) ==
    LET r == award_achievement(progress, achievement_id, now)
    IN  /\ r.p.total_xp <= MaxXp
        /\ progress' = r.p
        /\ last_call' = Call("award_achievement", <<achievement_id>>, "None",
                             <<r.ret>>)

DoUpdateStreak(is_correct, cap) ==
    LET p == update_streak(progress, is_correct, now)
    IN  /\ p.total_xp <= MaxXp
        /\ p.streak_data.current_streak <= cap
        /\ progress' = p
        /\ last_call' = Call("update_streak", <<is_correct>>, "None",
                             <<p.streak_data.current_streak,
                               p.streak_data.streak_multiplier>>)

DoUpdateSpecialtyProficiency(category, is_correct, time_taken, xp_earned) ==
    LET p == update_specialty_proficiency(progress, category, is_correct,
                                          time_taken, xp_earned, now)
    IN  /\ p.total_xp <= MaxXp
        /\ progress' = p
        /\ last_call' = Call("update_specialty_proficiency",
                             <<category, is_correct>>, "None", <<>>)

DoUpdatePerformanceMetrics(case_result) ==
    /\ progress' = update_performance_metrics(progress, case_result, now)
    /\ last_call' = Call("update_performance_metrics",
                         <<case_result.is_correct>>, "None", <<>>)

AddXp ==
    /\ Counted
    /\ \E xp_amount \in XpAmounts : DoAddXp(xp_amount)
    /\ UNCHANGED <<frames, Config, now, scoring>>

AwardAchievement ==
    /\ Counted
    /\ \E achievement_id \in AwardIds : DoAwardAchievement(achievement_id)
    /\ UNCHANGED <<frames, Config, now, scoring>>

UpdateStreak ==
    /\ \E is_correct \in BOOLEAN : DoUpdateStreak(is_correct, MaxStreak)
    /\ UNCHANGED <<frames, Config, now, scoring, calls>>

UpdateSpecialtyProficiency ==
    /\ Counted
    /\ \E category \in Categories, is_correct \in BOOLEAN :
          DoUpdateSpecialtyProficiency(category, is_correct, 20, 10)
    /\ UNCHANGED <<frames, Config, now, scoring>>

UpdatePerformanceMetrics ==
    /\ Counted
    /\ \E is_correct \in BOOLEAN :
          DoUpdatePerformanceMetrics(
              [is_correct |-> is_correct, time_taken |-> 20,
               category |-> "mood_disorders", difficulty |-> "beginner"])
    /\ UNCHANGED <<frames, Config, now, scoring>>

(* The streak over several days: update_streak calls and midnights. *)
StreakAnswer ==
    /\ \E is_correct \in BOOLEAN : DoUpdateStreak(is_correct, MaxLongStreak)
    /\ UNCHANGED <<frames, Config, now, scoring, calls>>

AdvanceDay ==
    /\ now.day < MaxDay
    /\ now' = [day |-> now.day + 1, sec |-> 0]
    /\ UNCHANGED <<frames, progress, Config, scoring, last_call, calls>>

(* Scoring *)

DoStartQuizSession(quiz_data) ==
    LET r == start_quiz_session(scoring, quiz_data, now)
    IN  /\ scoring' = r.s
        /\ last_call' = Call("start_quiz_session", <<quiz_data>>, r.raised, <<>>)

DoRecordAnswer(question_number, user_answer, answer_time) ==
    LET r == record_answer(scoring, question_number, user_answer, answer_time, now)
    IN  /\ scoring' = r.s
        /\ last_call' = Call("record_answer",
                             <<question_number, user_answer, answer_time>>,
                             r.raised, <<>>)

StartQuizSession ==
    /\ \E quiz_data \in SessionQuizzes : DoStartQuizSession(quiz_data)
    /\ UNCHANGED <<frames, progress, Config, now, calls>>

RecordAnswer ==
    /\ \E question_number \in QuestionNumbers, user_answer \in SessionAnswers,
          answer_time \in AnswerTimes :
           DoRecordAnswer(question_number, user_answer, answer_time)
    /\ UNCHANGED <<frames, progress, Config, now, calls>>

StartQuestionTimer ==
    \E question_number \in TimerNumbers :
        LET r == start_question_timer(scoring, question_number, now)
        IN  /\ scoring' = r.s
            /\ last_call' = Call("start_question_timer", <<question_number>>,
                                 r.raised, <<>>)
            /\ UNCHANGED <<frames, progress, Config, now, calls>>

CalculateScores ==
    LET r == calculate_scores(scoring, progress, now)
        reaches_progress == scoring.quiz_data # <<>> /\ scoring.user_progress
    IN  /\ reaches_progress => calls < MaxScorings
        /\ r.p.total_xp <= MaxXp
        /\ scoring' = r.s
        /\ progress' = r.p
        /\ calls' = IF reaches_progress THEN calls + 1 ELSE calls
        /\ last_call' = Call("calculate_scores", <<>>, r.raised, r.ret)
        /\ UNCHANGED <<frames, Config, now>>

ResetSession ==
    /\ scoring' = reset_session(scoring)
    /\ last_call' = Call("reset_session", <<>>, "None", <<>>)
    /\ UNCHANGED <<frames, progress, Config, now, calls>>

AdvanceClock ==
    /\ now.sec < MaxSec
    /\ now' = [now EXCEPT !.sec = @ + 1]
    /\ UNCHANGED <<frames, progress, Config, scoring, last_call, calls>>

(* A session scored into a UserProgress: the owner starts a quiz when none *)
(* is active and answers its questions in order.                           *)
StartScoredQuiz ==
    /\ scoring.quiz_data = <<>>
    /\ \E quiz_data \in ScoredQuizzes : DoStartQuizSession(quiz_data)
    /\ UNCHANGED <<frames, progress, Config, now, calls>>

RecordScoredAnswer ==
    /\ \E user_answer \in ScoredAnswers :
          DoRecordAnswer(Cardinality(DOMAIN scoring.user_answers) + 1,
                         user_answer, <<20>>)
    /\ UNCHANGED <<frames, progress, Config, now, calls>>

---------------------------------------------------------------------------
(* Specifications *)

InitProgress ==
    /\ progress = NewUserProgress
    /\ now = [day |-> 0, sec |-> 0]
    /\ last_call = NoCall
    /\ calls = 0
    /\ frames = NoFrames
    /\ generator = NoGenerator
    /\ random = 1

(* A UserProgress used on its own. *)
Init ==
    /\ InitProgress
    /\ \E c \in Configs : achievements = c[1] /\ difficulty_tiers = c[2]
    /\ scoring = NewScoring(FALSE)

Next ==
    \/ AddXp
    \/ AwardAchievement
    \/ UpdateStreak
    \/ UpdateSpecialtyProficiency
    \/ UpdatePerformanceMetrics

Spec == Init /\ [][Next]_vars

NextStreak ==
    \/ StreakAnswer
    \/ AdvanceDay

SpecStreak == Init /\ [][NextStreak]_vars

(* A Scoring object without a UserProgress. *)
InitSession ==
    /\ InitProgress
    /\ achievements = CatalogNone
    /\ difficulty_tiers = TiersNone
    /\ scoring = NewScoring(FALSE)

NextSession ==
    \/ StartQuizSession
    \/ RecordAnswer
    \/ StartQuestionTimer
    \/ CalculateScores
    \/ ResetSession
    \/ AdvanceClock

SpecSession == InitSession /\ [][NextSession]_vars

(* A Scoring object with a UserProgress, which its owner also awards to. *)
InitScoring ==
    /\ InitProgress
    /\ \E c \in Configs \ {<<CatalogNone, TiersNone>>} :
          achievements = c[1] /\ difficulty_tiers = c[2]
    /\ scoring = NewScoring(TRUE)

NextScoring ==
    \/ StartScoredQuiz
    \/ RecordScoredAnswer
    \/ CalculateScores
    \/ ResetSession
    \/ AwardAchievement

SpecScoring == InitScoring /\ [][NextScoring]_vars

---------------------------------------------------------------------------
(* Properties *)

(* The leveling curve from its definition: the threshold of level L is     *)
(* floor(100 * 1.5^(L-1)), and XpToPassLevel[L] is the XP that pays the    *)
(* thresholds of levels 1..L.                                              *)
MaxLevel == Len(XpTable) - 2

RECURSIVE CumulativeXp(_)
CumulativeXp(n) ==
    IF n = 0 THEN <<>>
    ELSE LET prev == CumulativeXp(n - 1)
         IN  Append(prev, (IF n = 1 THEN 0 ELSE prev[n - 1]) + Pow15(n - 1)[1])

XpToPassLevel == CumulativeXp(MaxLevel)

LevelOf(xp) == 1 + Cardinality({l \in 1..MaxLevel : XpToPassLevel[l] <= xp})

LevelMatchesXp ==
    /\ progress.level = LevelOf(progress.total_xp)
    /\ _calculate_level_from_xp(0) = 1
    /\ _calculate_level_from_xp(100) = 2
    /\ _calculate_level_from_xp(249) = 2
    /\ _calculate_level_from_xp(250) = 3

(* C1: after any sequence of add_xp, award_achievement, update_streak,     *)
(* update_specialty_proficiency and update_performance_metrics calls on a  *)
(* fresh UserProgress, level is the level the curve gives for total_xp     *)
(* (0 -> 1, 100 -> 2, 249 -> 2, 250 -> 3), before and after every call,    *)
(* and a call that does not lower total_xp does not lower level.           *)
C1_LevelFollowsTotalXp ==
    [][/\ LevelMatchesXp
       /\ LevelMatchesXp'
       /\ progress'.total_xp >= progress.total_xp
            => progress'.level >= progress.level]_vars

(* C1 witness: XP was added directly, a streak award leveled the user up   *)
(* inside update_streak, and proficiency was updated.                      *)
C1_Witness ==
    /\ progress.level >= 10
    /\ progress.total_xp >= 7486 + 250
    /\ "perfect_streak" \in EarnedIds(progress)
    /\ DOMAIN progress.specialties # {}
    /\ last_call.op = "add_xp"

(* C2: an award_achievement call for a catalog id not yet earned returns   *)
(* true and earns it, and the same call made again returns false and       *)
(* changes nothing; a call for an id already earned or not in the catalog  *)
(* returns false and leaves the whole UserProgress (total_xp, level,       *)
(* earned list, unlock status) as it was.                                  *)
C2_AwardIsIdempotent ==
    [][\A id \in AwardIds :
          (/\ last_call'.op = "award_achievement"
           /\ last_call'.args = <<id>>
           /\ DoAwardAchievement(id)
           /\ UNCHANGED <<Config, now>>) =>
              IF id \in DOMAIN achievements /\ id \notin EarnedIds(progress)
              THEN /\ last_call'.ret = <<TRUE>>
                   /\ id \in EarnedIds(progress')
                   /\ LET again == award_achievement(progress', id, now)
                      IN  ~again.ret /\ again.p = progress'
              ELSE /\ last_call'.ret = <<FALSE>>
                   /\ progress' = progress]_vars

(* C2 witness: first_case, which only a direct call awards here, was       *)
(* awarded and the call repeated.                                          *)
C2_Witness ==
    /\ last_call.op = "award_achievement"
    /\ last_call.args = <<"first_case">>
    /\ last_call.ret = <<FALSE>>
    /\ "first_case" \in EarnedIds(progress)
    /\ progress.total_xp = achievements["first_case"].xp_reward

(* C3: no achievement id is twice in earned_achievements, whether awarded  *)
(* directly, by a level-up inside an award's own add_xp, or by the session *)
(* checks that calculate_scores runs.                                      *)
C3_NoAchievementTwice ==
    \A i, j \in DOMAIN progress.earned_achievements :
        progress.earned_achievements[i].achievement_id
            = progress.earned_achievements[j].achievement_id => i = j

(* C3 witness: a perfect session was scored when perfectionist was already *)
(* earned, and an award has leveled the user past level 10 inside it.      *)
C3_Witness ==
    /\ last_call.op = "calculate_scores"
    /\ last_call.raised = "None"
    /\ last_call.ret[1].correct_answers = PerfectSessionQuestions
    /\ "perfectionist" \in EarnedIds(progress)
    /\ "perfectionist" \notin SeqRange(scoring.achievements_awarded)
    /\ {"level_10", "first_case", "speed_demon"} \subseteq EarnedIds(progress)

(* The multiplier tiers: <<least streak, multiplier in hundredths>>. *)
StreakTiers ==
    {<<0, 100>>, <<3, 110>>, <<5, 125>>, <<10, 150>>, <<15, 175>>, <<20, 200>>}

TierMultiplier(streak) ==
    LET tier == CHOOSE t \in StreakTiers :
                    /\ t[1] <= streak
                    /\ \A u \in StreakTiers : u[1] <= streak => u[1] <= t[1]
    IN  tier[2]

(* C4: in every state reached by update_streak calls the multiplier is the *)
(* tier of current_streak: 2.0 from 20, 1.75 from 15, 1.5 from 10, 1.25    *)
(* from 5, 1.1 from 3, otherwise 1.0.                                      *)
C4_MultiplierIsTierOfStreak ==
    progress.streak_data.streak_multiplier
        = TierMultiplier(progress.streak_data.current_streak)

(* C4 witness: the streak reached the top tier. *)
C4_Witness ==
    /\ progress.streak_data.current_streak = 20
    /\ progress.streak_data.streak_multiplier = 200

(* C5: update_streak(false) sets current_streak to 0 and the multiplier to *)
(* 1.0 and leaves longest_streak alone; longest_streak never decreases and *)
(* is at least current_streak before and after every step.                 *)
C5_WrongAnswerResetsStreak ==
    [][/\ (DoUpdateStreak(FALSE, MaxLongStreak) /\ UNCHANGED <<Config, now>>) =>
             /\ progress'.streak_data.current_streak = 0
             /\ progress'.streak_data.streak_multiplier = 100
             /\ progress'.streak_data.longest_streak
                    = progress.streak_data.longest_streak
       /\ progress'.streak_data.longest_streak
              >= progress.streak_data.longest_streak
       /\ progress.streak_data.longest_streak
              >= progress.streak_data.current_streak
       /\ progress'.streak_data.longest_streak
              >= progress'.streak_data.current_streak]_vars

(* C5 witness: a wrong answer ended a streak of at least 3. *)
C5_Witness ==
    /\ last_call.op = "update_streak"
    /\ last_call.args = <<FALSE>>
    /\ progress.streak_data.current_streak = 0
    /\ progress.streak_data.longest_streak >= 3

(* C6: update_streak(true) after an earlier correct answer adds 1 to       *)
(* current_streak when that answer was on the same or the previous         *)
(* calendar day, and makes current_streak 1 when it was more than one day  *)
(* before.                                                                 *)
C6_StreakContinuesWithinADay ==
    [][(/\ DoUpdateStreak(TRUE, MaxLongStreak)
        /\ UNCHANGED <<Config, now>>
        /\ progress.streak_data.last_correct_date # NoDate) =>
           LET gap == now.day - progress.streak_data.last_correct_date
           IN  /\ gap \in {0, 1} =>
                     progress'.streak_data.current_streak
                         = progress.streak_data.current_streak + 1
               /\ gap > 1 => progress'.streak_data.current_streak = 1]_vars

(* C6 witness: a streak begun on one day was continued on a later day,     *)
(* after an earlier streak had been longer.                                *)
C6_Witness ==
    /\ last_call.op = "update_streak"
    /\ last_call.args = <<TRUE>>
    /\ progress.streak_data.current_streak >= 2
    /\ progress.streak_data.streak_start_date # NoDate
    /\ progress.streak_data.streak_start_date
           < progress.streak_data.last_correct_date
    /\ progress.streak_data.longest_streak > progress.streak_data.current_streak

(* Every tier whose requirement the level meets is unlocked, once add_xp   *)
(* has raised the level; before any XP only the lowest tier is.            *)
TiersUnlocked ==
    /\ "beginner" \in progress.unlock_status.unlocked_difficulties
    /\ progress.total_xp = 0 =>
           progress.unlock_status.unlocked_difficulties = {"beginner"}
    /\ progress.level > 1 =>
           \A tier \in DOMAIN difficulty_tiers :
               progress.level >= difficulty_tiers[tier] =>
                   tier \in progress.unlock_status.unlocked_difficulties

(* C7: the unlocked difficulties start as the lowest tier alone; once      *)
(* add_xp has raised level to a tier's requirement or above, that tier is  *)
(* unlocked when the call returns; and no step removes a tier.             *)
C7_TiersUnlockAndStay ==
    [][/\ TiersUnlocked
       /\ TiersUnlocked'
       /\ progress.unlock_status.unlocked_difficulties
              \subseteq progress'.unlock_status.unlocked_difficulties]_vars

(* C7 witness: the level passed the third tier's requirement and not the   *)
(* fourth's.                                                               *)
C7_Witness ==
    /\ progress.level >= 10
    /\ progress.level < 25
    /\ progress.unlock_status.unlocked_difficulties
           = {"beginner", "easy", "intermediate", "advanced"}

(* The level milestones: <<level, achievement id>>. *)
Milestones == {<<10, "level_10">>, <<25, "level_25">>, <<50, "level_50">>}

TimesEarned(id) ==
    Cardinality({i \in DOMAIN progress.earned_achievements :
                    progress.earned_achievements[i].achievement_id = id})

(* C8: whenever the level is at or above a milestone (10, 25, 50) whose    *)
(* achievement the catalog defines, that achievement is earned, and no     *)
(* milestone achievement is earned more than once.                         *)
C8_MilestonesEarnedOnce ==
    \A m \in Milestones :
        /\ (progress.level >= m[1] /\ m[2] \in DOMAIN achievements) =>
               TimesEarned(m[2]) = 1
        /\ TimesEarned(m[2]) <= 1

(* C8 witness: one add_xp call took the level past two milestones. *)
C8_Witness ==
    /\ last_call.op = "add_xp"
    /\ calls = 1
    /\ progress.level >= 25
    /\ last_call.ret[3] = <<"level_10", "level_25">>

(* C9: with no session active (none started yet, or reset_session called)  *)
(* record_answer, start_question_timer and calculate_scores raise the      *)
(* session-not-started error and leave answers, timers and results as      *)
(* they were; reset_session leaves no session active.                      *)
C9_NoSessionNoEffect ==
    [][/\ (scoring.quiz_data = <<>>
           /\ (RecordAnswer \/ StartQuestionTimer \/ CalculateScores)) =>
             /\ last_call'.raised = "session_not_started"
             /\ scoring'.user_answers = scoring.user_answers
             /\ scoring'.question_start_times = scoring.question_start_times
             /\ scoring'.question_results = scoring.question_results
             /\ scoring'.quiz_data = <<>>
       /\ ResetSession => scoring'.quiz_data = <<>>
       /\ (scoring.quiz_data # <<>>
           /\ (RecordAnswer \/ StartQuestionTimer \/ CalculateScores)) =>
             last_call'.raised # "session_not_started"]_vars

(* C9 witness: a timer was asked for after the clock ran and no session    *)
(* was active.                                                             *)
C9_Witness ==
    /\ last_call.op = "start_question_timer"
    /\ last_call.raised = "session_not_started"
    /\ scoring.quiz_data = <<>>
    /\ scoring.question_start_times = EmptyDict
    /\ now.sec > 0

AnswersInRange ==
    IF scoring.quiz_data = <<>> THEN DOMAIN scoring.user_answers = {}
    ELSE DOMAIN scoring.user_answers
             \subseteq 1..Len(scoring.quiz_data[1].questions)

(* C10: in a session of N questions record_answer with a number outside    *)
(* 1..N raises the invalid-question-number error and changes nothing, so   *)
(* the session stays as usable as it was; with a number in 1..N it stores  *)
(* the answer under it; recorded answers are always keyed within 1..N.     *)
C10_AnswerNumberChecked ==
    [][/\ AnswersInRange
       /\ AnswersInRange'
       /\ (RecordAnswer /\ scoring.quiz_data # <<>>) =>
             LET question_number == last_call'.args[1]
                 n == Len(scoring.quiz_data[1].questions)
             IN  IF question_number \in 1..n
                 THEN /\ last_call'.raised = "None"
                      /\ question_number \in DOMAIN scoring'.user_answers
                      /\ scoring'.user_answers[question_number].answer
                             = last_call'.args[2]
                 ELSE /\ last_call'.raised = "invalid_question_number"
                      /\ scoring' = scoring]_vars

(* C10 witness: a number above N was refused in a session that holds an    *)
(* answer.                                                                 *)
C10_Witness ==
    /\ last_call.op = "record_answer"
    /\ last_call.raised = "invalid_question_number"
    /\ scoring.quiz_data # <<>>
    /\ last_call.args[1] > Len(scoring.quiz_data[1].questions)
    /\ DOMAIN scoring.user_answers # {}

(* A quiz start_quiz_session must refuse, said from the quiz itself. *)
StructurallyInvalid(quiz) ==
    \/ "quiz_metadata" \notin quiz.keys
    \/ "questions" \notin quiz.keys
    \/ ~quiz.questions_is_list
    \/ quiz.questions = <<>>
    \/ \E i \in DOMAIN quiz.questions, k \in QuestionKeys :
          k \notin quiz.questions[i].keys

(* C11: start_quiz_session on a quiz that lacks quiz_metadata or           *)
(* questions, has an empty question list or has a question missing a       *)
(* required field raises and leaves the whole Scoring state as it was (an  *)
(* earlier session's quiz, answers and results stay); a quiz without these *)
(* defects is installed with no answers; the installed quiz is never a     *)
(* refused one.                                                            *)
C11_InvalidQuizRejected ==
    [][/\ \A quiz \in SessionQuizzes :
             (/\ last_call'.op = "start_quiz_session"
              /\ last_call'.args = <<quiz>>
              /\ StartQuizSession) =>
                 IF StructurallyInvalid(quiz)
                 THEN /\ last_call'.raised # "None"
                      /\ scoring' = scoring
                 ELSE /\ last_call'.raised = "None"
                      /\ scoring'.quiz_data = <<quiz>>
                      /\ scoring'.user_answers = EmptyDict
       /\ scoring'.quiz_data # <<>> =>
             ~StructurallyInvalid(scoring'.quiz_data[1])]_vars

(* C11 witness: a quiz was refused while an earlier session held an answer *)
(* and results.                                                            *)
C11_Witness ==
    /\ last_call.op = "start_quiz_session"
    /\ last_call.raised # "None"
    /\ scoring.quiz_data = <<QuizTwo>>
    /\ DOMAIN scoring.user_answers # {}
    /\ scoring.question_results # <<>>

(* C12: calculate_scores in a session of N questions yields one result per *)
(* question, in question order; a question with no recorded answer scores  *)
(* 0 and is incorrect; total_questions = N and correct_answers +           *)
(* incorrect_answers = N; with no answer recorded correct_answers = 0,     *)
(* incorrect_answers = N and total_score = 0.                              *)
C12_UnansweredCountAsIncorrect ==
    [][(CalculateScores /\ scoring.quiz_data # <<>>) =>
          LET questions == scoring.quiz_data[1].questions
              n == Len(questions)
              stats == last_call'.ret[1]
              results == scoring'.question_results
          IN  /\ Len(results) = n
              /\ \A i \in 1..n :
                    /\ results[i].question_number = questions[i].question_number
                    /\ questions[i].question_number
                           \notin DOMAIN scoring.user_answers =>
                           /\ results[i].score = 0
                           /\ ~results[i].is_correct
                           /\ results[i].user_answer = <<>>
              /\ stats.total_questions = n
              /\ stats.correct_answers + stats.incorrect_answers = n
              /\ stats.correct_answers
                     = Cardinality({i \in 1..n : results[i].is_correct})
              /\ DOMAIN scoring.user_answers = {} =>
                    /\ stats.correct_answers = 0
                    /\ stats.incorrect_answers = n
                    /\ stats.total_score = 0]_vars

(* C12 witness: two questions were scored with only the first answered,    *)
(* correctly.                                                              *)
C12_Witness ==
    /\ last_call.op = "calculate_scores"
    /\ last_call.raised = "None"
    /\ DOMAIN scoring.user_answers = {1}
    /\ last_call.ret[1].total_questions = 2
    /\ last_call.ret[1].correct_answers = 1
    /\ last_call.ret[1].incorrect_answers = 1

(* ------------------------------------------------------------------ *)
(* Lenient and partial-credit evaluation (scoring.py)                  *)
(* ------------------------------------------------------------------ *)

(* A str is the sequence of its tokens: a token is one white-space
   character (Space) or a maximal run of other characters (a word).
   Two strs are equal exactly when their token sequences are. *)
Space == " "

(* The words of the model, and str.lower() on each of them. *)
Lower(token) ==
    CASE token = "Major" -> "major"
      [] token = "Depressive" -> "depressive"
      [] token = "Depression" -> "depression"
      [] token = "Disorder" -> "disorder"
      [] token = "Generalized" -> "generalized"
      [] token = "Anxiety" -> "anxiety"
      [] token = "Single" -> "single"
      [] token = "Episode" -> "episode"
      [] token = "Some" -> "some"
      [] token = "Mood" -> "mood"
      [] OTHER -> token

lower(str) == [i \in DOMAIN str |-> Lower(str[i])]

strip(str) ==
    LET inked == {i \in DOMAIN str : str[i] # Space}
    IN IF inked = {} THEN <<>>
       ELSE SubSeq(str,
                   CHOOSE i \in inked : \A j \in inked : i <= j,
                   CHOOSE i \in inked : \A j \in inked : j <= i)

(* str.split(): the words, in order. *)
split(str) == SelectSeq(str, LAMBDA token : token # Space)

(* set(words) *)
WordSet(words) == {words[i] : i \in DOMAIN words}

(* a is a prefix (suffix) of b, for two tokens: of the model's words only
   "disorder" is a proper prefix of another ("disorders"), and no word is
   a proper suffix or an inner part of another. *)
TokenPrefix(a, b) == a = b \/ <<a, b>> \in {<<"disorder", "disorders">>}
TokenSuffix(a, b) == a = b
TokenInfix(a, b) == TokenPrefix(a, b) \/ TokenSuffix(a, b)

(* keyword in str: the substring test on two strs. *)
Contains(str, keyword) ==
    LET n == Len(keyword)
    IN IF n = 0 THEN TRUE
       ELSE IF n = 1
       THEN \E i \in DOMAIN str : TokenInfix(keyword[1], str[i])
       ELSE \E o \in 0..(Len(str) - n) :
              /\ TokenSuffix(keyword[1], str[o + 1])
              /\ \A k \in 2..(n - 1) : keyword[k] = str[o + k]
              /\ TokenPrefix(keyword[n], str[o + n])

(* A score of 1.0. Scores of the lenient and partial modes are counted in
   units of 1/FullScore, which holds bonus (hundredths) + similarity / 2
   exactly for every similarity over at most 8 words. *)
FullScore == 168000

(* partial_credit_config: the bonus and the threshold in hundredths. *)
PartialCreditConfig(category_match_bonus, similarity_threshold) ==
    [category_match_bonus |-> category_match_bonus,
     similarity_threshold |-> similarity_threshold]

DefaultPartialCreditConfig == PartialCreditConfig(25, 70)

(* Scoring(scoring_mode, partial_credit_config) *)
NewScoringWith(scoring_mode, partial_credit_config) ==
    [scoring_mode |-> scoring_mode,
     partial_credit_config |-> partial_credit_config,
     quiz_data |-> <<>>,
     user_answers |-> EmptyDict,
     question_results |-> <<>>,
     session_start_time |-> <<>>,
     question_start_times |-> EmptyDict,
     diagnosis_similarity_cache |-> {},
     user_progress |-> FALSE,
     session_xp_earned |-> 0,
     achievements_awarded |-> <<>>]

(* The overlap ratio reaches 0.8: overlap / len(correct_words) >= 0.8. *)
evaluate_lenient_any_overlap(user_answer, correct_answer) ==
    LET user_clean == lower(strip(user_answer))
        correct_clean == lower(strip(correct_answer))
        user_words == WordSet(split(user_clean))
        correct_words == WordSet(split(correct_clean))
        overlap == Cardinality(user_words \cap correct_words)
    IN IF user_clean = correct_clean
       THEN [is_correct |-> TRUE, score |-> FullScore]
       ELSE IF correct_words # {} /\ user_words # {} /\ overlap >= 1
       THEN [is_correct |-> TRUE, score |-> FullScore]
       ELSE [is_correct |-> FALSE, score |-> 0]

_evaluate_lenient(user_answer, correct_answer) ==
    LET user_clean == lower(strip(user_answer))
        correct_clean == lower(strip(correct_answer))
        user_words == WordSet(split(user_clean))
        correct_words == WordSet(split(correct_clean))
        overlap == Cardinality(user_words \cap correct_words)
    IN IF user_clean = correct_clean
       THEN [is_correct |-> TRUE, score |-> FullScore]
       ELSE IF /\ correct_words # {} /\ user_words # {}
               /\ 10 * overlap >= 8 * Cardinality(correct_words)
       THEN [is_correct |-> TRUE, score |-> FullScore]
       ELSE [is_correct |-> FALSE, score |-> 0]

(* The similarity as the pair <<len(intersection), len(union)>>, <<0, 1>>
   for 0.0; the cache is the set of its <<key, value>> items. *)
_calculate_diagnosis_similarity(s, diagnosis1, diagnosis2) ==
    LET cache_key == <<lower(diagnosis1), lower(diagnosis2)>>
        cache == s.diagnosis_similarity_cache
        words1 == WordSet(split(lower(diagnosis1)))
        words2 == WordSet(split(lower(diagnosis2)))
        similarity ==
            IF words1 = {} \/ words2 = {} THEN <<0, 1>>
            ELSE <<Cardinality(words1 \cap words2),
                   Cardinality(words1 \cup words2)>>
    IN IF \E item \in cache : item[1] = cache_key
       THEN [s |-> s,
             ret |-> (CHOOSE item \in cache : item[1] = cache_key)[2]]
       ELSE [s |-> [s EXCEPT !.diagnosis_similarity_cache =
                                 cache \cup {<<cache_key, similarity>>}],
             ret |-> similarity]

(* min(score, 1.0) *)
CapScoreNever(score) == score
CapScore(score) == IF score < FullScore THEN score ELSE FullScore

(* category.split('_') is the sequence of keywords the category is given as. *)
_evaluate_partial(s, user_answer, correct_answer, question) ==
    LET user_clean == lower(strip(user_answer))
        correct_clean == lower(strip(correct_answer))
        config == s.partial_credit_config
        category_keywords == question.case_metadata.category
        category_score ==
            IF \E k \in DOMAIN category_keywords :
                   Contains(user_clean, category_keywords[k])
            THEN config.category_match_bonus * (FullScore \div 100)
            ELSE 0
        sim == _calculate_diagnosis_similarity(s, user_answer, correct_answer)
        similarity == sim.ret
        partial_score ==
            IF 100 * similarity[1] >= config.similarity_threshold * similarity[2]
            THEN (similarity[1] * (FullScore \div 2)) \div similarity[2]
            ELSE 0
        score == CapScore(category_score + partial_score)
    IN IF user_clean = correct_clean
       THEN [s |-> s, is_correct |-> TRUE, score |-> FullScore]
       ELSE IF score > 0
       THEN [s |-> sim.s, is_correct |-> FALSE, score |-> score]
       ELSE [s |-> sim.s, is_correct |-> FALSE, score |-> 0]

(* Answers and questions the evaluators are applied to. *)
Str(words) ==
    [i \in 1..(2 * Len(words) - 1) |->
        IF i % 2 = 1 THEN words[(i + 1) \div 2] ELSE Space]

MajorDepressiveDisorder == Str(<<"Major", "Depressive", "Disorder">>)
GeneralizedAnxietyDisorder == Str(<<"Generalized", "Anxiety", "Disorder">>)
SingleEpisode ==
    Str(<<"Major", "Depressive", "Disorder", "Single", "Episode">>)

LenientCorrect ==
    {MajorDepressiveDisorder, GeneralizedAnxietyDisorder, SingleEpisode,
     <<Space>>}

LenientAnswers ==
    {<<>>, <<Space>>,
     Str(<<"major", "depressive", "disorder">>),
     <<Space>> \o MajorDepressiveDisorder \o <<Space>>,
     Str(<<"Major", "Depression">>),
     Str(<<"Major">>),
     Str(<<"Generalized", "Anxiety">>),
     Str(<<"Generalized">>),
     Str(<<"Disorder", "Depressive", "Major">>),
     Str(<<"Major", "Depressive", "Disorder", "Single">>),
     Str(<<"Major", "Depressive", "Disorder", "Episode", "Some", "Mood">>),
     Str(<<"Major", "Major", "Major", "Major">>),
     Str(<<"Some", "Mood">>)}

PartialCorrect == {MajorDepressiveDisorder, Str(<<"Mood", "Disorder">>)}

PartialAnswers ==
    {<<>>,
     Str(<<"major", "depressive", "disorder">>),
     Str(<<"Disorder", "Depressive", "Major">>),
     Str(<<"Major", "Depressive">>),
     Str(<<"Some", "Mood", "Disorder">>)}

(* mood_disorders, Mood_Disorders and the empty name *)
PartialCategories ==
    {<< <<"mood">>, <<"disorders">> >>,
     << <<"Mood">>, <<"Disorders">> >>,
     << <<>> >>}

PartialCreditConfigs ==
    {DefaultPartialCreditConfig,
     PartialCreditConfig(25, 0),
     PartialCreditConfig(25, 100),
     PartialCreditConfig(100, 50)}

EvaluateLenient ==
    /\ \E user_answer \in LenientAnswers, correct_answer \in LenientCorrect :
         last_call' = Call("_evaluate_lenient",
                           <<user_answer, correct_answer>>, "None",
                           <<_evaluate_lenient(user_answer, correct_answer)>>)
    /\ UNCHANGED <<frames, progress, Config, now, scoring, calls>>

EvaluatePartial ==
    /\ \E user_answer \in PartialAnswers, correct_answer \in PartialCorrect,
          category \in PartialCategories :
         LET question == [case_metadata |-> [category |-> category]]
             r == _evaluate_partial(scoring, user_answer, correct_answer,
                                    question)
         IN /\ Counted
            /\ scoring' = r.s
            /\ last_call' = Call("_evaluate_partial",
                                 <<user_answer, correct_answer, category>>,
                                 "None",
                                 <<[is_correct |-> r.is_correct,
                                    score |-> r.score]>>)
    /\ UNCHANGED <<frames, progress, Config, now>>

InitEvaluate ==
    /\ InitProgress
    /\ achievements = CatalogNone
    /\ difficulty_tiers = TiersNone
    /\ \/ scoring = NewScoringWith("lenient", DefaultPartialCreditConfig)
       \/ \E config \in PartialCreditConfigs :
            scoring = NewScoringWith("partial", config)

NextEvaluate ==
    \/ EvaluateLenient
    \/ EvaluatePartial

SpecEvaluate == InitEvaluate /\ [][NextEvaluate]_vars

(* C13: in lenient mode an answer is correct, with score 1.0, exactly when
   after trimming and lowercasing it equals the correct answer or at least
   80% of the correct answer's distinct words are among the submitted
   words; every other answer scores 0.0, and no score lies in between. *)
C13_LenientIsEightyPercentOverlap ==
    last_call.op = "_evaluate_lenient" =>
        LET submitted == WordSet(split(lower(strip(last_call.args[1]))))
            correct == WordSet(split(lower(strip(last_call.args[2]))))
            equal == lower(strip(last_call.args[1]))
                         = lower(strip(last_call.args[2]))
            enough == /\ correct # {}
                      /\ 5 * Cardinality(submitted \cap correct)
                             >= 4 * Cardinality(correct)
            ret == last_call.ret[1]
        IN /\ ret.is_correct <=> (equal \/ enough)
           /\ ret.score = IF equal \/ enough THEN FullScore ELSE 0

(* Four of the five words of the correct answer were submitted. *)
C13_Witness ==
    /\ last_call.op = "_evaluate_lenient"
    /\ last_call.args =
           <<Str(<<"Major", "Depressive", "Disorder", "Single">>),
             SingleEpisode>>
    /\ last_call.ret = <<[is_correct |-> TRUE, score |-> FullScore]>>

(* C14: in lenient mode a shortened or near-miss form of the correct
   diagnosis is accepted: a submission that shares some but not all of the
   correct answer's words (2 of its 3, 1 of its 3, its first word alone)
   is evaluated as correct with score 1.0. *)
C14_ShortenedFormAccepted ==
    last_call.op = "_evaluate_lenient" =>
        LET submitted == WordSet(split(lower(strip(last_call.args[1]))))
            correct == WordSet(split(lower(strip(last_call.args[2]))))
            ret == last_call.ret[1]
        IN (/\ submitted \cap correct # {}
            /\ submitted \cap correct # correct)
               => ret.is_correct /\ ret.score = FullScore

(* "Generalized Anxiety" for "Generalized Anxiety Disorder" is refused. *)
C14_Witness ==
    /\ last_call.op = "_evaluate_lenient"
    /\ last_call.args =
           <<Str(<<"Generalized", "Anxiety">>), GeneralizedAnxietyDisorder>>
    /\ last_call.ret = <<[is_correct |-> FALSE, score |-> 0]>>

(* C15: in partial-credit mode the score lies in [0.0, 1.0] for every
   answer, correct answer, category and similarity threshold; an exact
   match after trimming and lowercasing scores exactly 1.0; and is_correct
   is true only for an exact match, however much credit accumulates. *)
C15_PartialScoreBounded ==
    last_call.op = "_evaluate_partial" =>
        LET equal == lower(strip(last_call.args[1]))
                         = lower(strip(last_call.args[2]))
            ret == last_call.ret[1]
        IN /\ 0 <= ret.score /\ ret.score <= FullScore
           /\ equal => ret.score = FullScore /\ ret.is_correct
           /\ ret.is_correct => equal

(* The same words in another order with a bonus of 1.0: the credit of 1.5
   is capped at 1.0 and the answer stays incorrect. *)
C15_Witness ==
    /\ last_call.op = "_evaluate_partial"
    /\ scoring.partial_credit_config = PartialCreditConfig(100, 50)
    /\ last_call.args = <<Str(<<"Disorder", "Depressive", "Major">>),
                          MajorDepressiveDisorder, << <<>> >> >>
    /\ last_call.ret = <<[is_correct |-> FALSE, score |-> FullScore]>>

(* ------------------------------------------------------------------ *)
(* Quiz generation (quiz_generator.py, data_loader.py)                 *)
(* ------------------------------------------------------------------ *)

(* The generator of the random module is a deterministic generator with
   a state: random.seed(s) sets the state from s alone, every draw moves
   the state and is a function of it.  The model's generator is a Lehmer
   generator over the states 1..250; which values it draws is not the
   program's, that they are determined by the state is. *)
RandomSeed(seed) == 1 + (seed % 250)
RandomNext(x) == (x * 6) % 251

(* F applied to a value that is computed once. *)
With(value, F(_)) == F(value)

(* _randbelow(n), random.random() < 0.3 and random.choice(seq): the value
   v and the state x after the draw. *)
Randbelow(x, n) == With(RandomNext(x), LAMBDA y : [v |-> y % n, x |-> y])
RandomBelowThreeTenths(x) ==
    With(RandomNext(x), LAMBDA y : [v |-> 10 * y < 3 * 251, x |-> y])
choice(seq, x) ==
    With(Randbelow(x, Len(seq)), LAMBDA r : [v |-> seq[r.v + 1], x |-> r.x])

Swap(list, i, j) == [list EXCEPT ![i] = list[j], ![j] = list[i]]

(* random.shuffle: for i in reversed(range(1, len(x))). *)
RECURSIVE ShuffleLoop(_, _, _)
ShuffleLoop(list, i, x) ==
    IF i < 1 THEN [v |-> list, x |-> x]
    ELSE With(Randbelow(x, i + 1), LAMBDA r :
              ShuffleLoop(Swap(list, i + 1, r.v + 1), i - 1, r.x))

shuffle(list, x) == ShuffleLoop(list, Len(list) - 1, x)

(* random.sample of a small population: the pool loop. *)
RECURSIVE SampleLoop(_, _, _, _, _)
SampleLoop(pool, n, k, result, x) ==
    IF Len(result) >= k THEN [v |-> result, x |-> x]
    ELSE With(Randbelow(x, n - Len(result)), LAMBDA r :
              SampleLoop([pool EXCEPT ![r.v + 1] = pool[n - Len(result)]],
                         n, k, Append(result, pool[r.v + 1]), r.x))

sample_one_case(population, k, x) ==
    [v |-> [i \in 1..k |-> population[1]], x |-> x]
sample(population, k, x) ==
    SampleLoop(population, Len(population), k, <<>>, x)

(* seq[:k] *)
Take(seq, k) ==
    IF k <= 0 THEN <<>>
    ELSE SubSeq(seq, 1, IF k < Len(seq) THEN k ELSE Len(seq))

(* bool(value) of an optional list: None and [] are false. *)
Truthy(optional) == optional # <<>> /\ optional[1] # {}

(* a.startswith(b) on diagnosis names: of the model's names only
   "Panic Disorder with Agoraphobia" starts with another one. *)
StartsWith(a, b) ==
    a = b \/ <<a, b>> \in {<<"Panic Disorder with Agoraphobia",
                             "Panic Disorder">>}

(* DataLoader.get_filtered_cases with the category and complexity
   filters; the other filters are left at None. *)
get_filtered_cases(cases, category, complexity) ==
    SelectSeq(cases, LAMBDA case :
        /\ Truthy(category) => case.category \in category[1]
        /\ Truthy(complexity) => case.complexity \in complexity[1])

(* diagnosis_by_category: the categories in insertion order and the names
   listed under each. *)
RECURSIVE FirstOccurrences(_)
FirstOccurrences(seq) ==
    IF seq = <<>> THEN <<>>
    ELSE With(FirstOccurrences(SubSeq(seq, 1, Len(seq) - 1)), LAMBDA front :
              IF seq[Len(seq)] \in SeqRange(front) THEN front
              ELSE Append(front, seq[Len(seq)]))

NamesListed(all_diagnoses, category) ==
    With(SelectSeq(all_diagnoses, LAMBDA d : d.category = category),
         LAMBDA listed : [i \in DOMAIN listed |-> listed[i].name])

diagnosis_by_category(all_diagnoses) ==
    With(FirstOccurrences(
             [i \in DOMAIN all_diagnoses |-> all_diagnoses[i].category]),
         LAMBDA order :
             [order |-> order,
              names |-> [c \in SeqRange(order) |->
                            NamesListed(all_diagnoses, c)]])

(* The names listed under the other categories, category by category. *)
other_category_diagnoses(by_category, case_category) ==
    LET F[i \in 0..Len(by_category.order)] ==
            IF i = 0 THEN <<>>
            ELSE F[i - 1] \o
                 (IF by_category.order[i] # case_category
                  THEN by_category.names[by_category.order[i]]
                  ELSE <<>>)
    IN F[Len(by_category.order)]

generic_distractors ==
    <<"Other Neurodevelopmental Disorder", "Other Mood Disorder",
      "Other Anxiety Disorder", "Other Psychotic Disorder",
      "Other Personality Disorder">>

(* The while loop that fills up with generic distractors.  When no generic
   name is left to add, an iteration changes nothing and the loop never
   ends: hangs. *)
RECURSIVE GenericLoop(_, _, _)
GenericLoop(distractors, correct_answer, num_distractors) ==
    IF Len(distractors) >= num_distractors
    THEN [v |-> distractors, hangs |-> FALSE]
    ELSE With(SelectSeq(generic_distractors, LAMBDA generic :
                  /\ generic # correct_answer
                  /\ generic \notin SeqRange(distractors)),
              LAMBDA free :
                  IF free = <<>> THEN [v |-> distractors, hangs |-> TRUE]
                  ELSE GenericLoop(Append(distractors, free[1]),
                                   correct_answer, num_distractors))

_generate_distractors(correct_answer, case_category, by_category, num_distractors, x) ==
    With(shuffle(SelectSeq(IF case_category \in DOMAIN by_category.names
                           THEN by_category.names[case_category] ELSE <<>>,
                           LAMBDA d : d # correct_answer), x),
    LAMBDA same_category_distractors :
    With(Take(same_category_distractors.v, num_distractors),
    LAMBDA first :
    With(IF Len(first) < num_distractors
         THEN With(shuffle(SelectSeq(
                       other_category_diagnoses(by_category, case_category),
                       LAMBDA d : d # correct_answer
                                  /\ d \notin SeqRange(first)),
                       same_category_distractors.x),
                   LAMBDA remaining_diagnoses :
                       [v |-> first \o Take(remaining_diagnoses.v,
                                            num_distractors - Len(first)),
                        x |-> remaining_diagnoses.x])
         ELSE [v |-> first, x |-> same_category_distractors.x],
    LAMBDA second :
    With(GenericLoop(second.v, correct_answer, num_distractors),
    LAMBDA filled :
        [v |-> Take(filled.v, num_distractors), x |-> second.x,
         hangs |-> filled.hangs]))))

(* specifier_map[category][age_group], <<>> where the map has no entry. *)
specifier_map(category, age_group) ==
    CASE category = "Depressive Disorders" ->
           (CASE age_group = "child" ->
                   <<"with onset in childhood", "pediatric onset">>
              [] age_group = "adolescent" ->
                   <<"with onset in adolescence", "teenage onset">>
              [] age_group = "adult" ->
                   <<"with anxious distress", "with mixed features",
                     "with melancholic features">>
              [] age_group = "older_adult" ->
                   <<"late onset", "with vascular contributions">>
              [] OTHER -> <<>>)
      [] category = "Anxiety Disorders" ->
           (CASE age_group = "child" -> <<"separation type", "school refusal">>
              [] age_group = "adolescent" -> <<"social type", "performance type">>
              [] age_group = "adult" -> <<"generalized type", "with panic attacks">>
              [] age_group = "older_adult" ->
                   <<"late onset", "with medical comorbidity">>
              [] OTHER -> <<>>)
      [] category = "Schizophrenia Spectrum and Other Psychotic Disorders" ->
           (CASE age_group = "child" -> <<"childhood onset", "early onset">>
              [] age_group = "adolescent" ->
                   <<"adolescent onset", "with disorganized features">>
              [] age_group = "adult" ->
                   <<"paranoid type", "disorganized type", "catatonic type">>
              [] age_group = "older_adult" ->
                   <<"late onset", "with cognitive decline">>
              [] OTHER -> <<>>)
      [] OTHER -> <<>>

(* An option's text is [label, specifier]: the label alone when the
   specifier is "", and "label, specifier" otherwise. *)
Plain(option) == [label |-> option, specifier |-> ""]

(* for option in options: with enhanced_options the options done. *)
RECURSIVE SpecifierLoop(_, _, _, _)
SpecifierLoop(options, case, enhanced_options, x) ==
    IF Len(enhanced_options) >= Len(options)
    THEN [v |-> enhanced_options, x |-> x]
    ELSE With(RandomBelowThreeTenths(x), LAMBDA coin :
         With(specifier_map(case.category, case.age_group),
         LAMBDA specifiers :
             IF coin.v /\ specifiers # <<>>
             THEN With(choice(specifiers, coin.x), LAMBDA specifier :
                      SpecifierLoop(options, case,
                          Append(enhanced_options,
                                 [label |-> options[Len(enhanced_options) + 1],
                                  specifier |-> specifier.v]),
                          specifier.x))
             ELSE SpecifierLoop(options, case,
                      Append(enhanced_options,
                             Plain(options[Len(enhanced_options) + 1])),
                      coin.x)))

_add_clinical_specifiers(options, case, x) ==
    SpecifierLoop(options, case, <<>>, x)

StandardKeys ==
    {"question_number", "case_id", "question_text", "question_type",
     "options", "correct_answer", "correct_index", "explanation",
     "reference", "case_metadata"}

(* next(i for i, option in enumerate(all_options)
        if option.startswith(correct_answer)) *)
correct_index_first_match(all_options, correct_answer) ==
    With({i \in DOMAIN all_options :
             StartsWith(all_options[i].label, correct_answer)},
         LAMBDA matches :
             (CHOOSE i \in matches : \A j \in matches : i <= j) - 1)

_create_question(case, by_category, num_choices, question_number, x) ==
    With(_generate_distractors(case.diagnosis, case.category, by_category,
                               num_choices - 1, x),
    LAMBDA distractors :
    With(_add_clinical_specifiers(<<case.diagnosis>> \o distractors.v, case,
                                  distractors.x),
    LAMBDA enhanced_options :
    With(shuffle(enhanced_options.v, enhanced_options.x),
    LAMBDA all_options :
        [v |-> [keys |-> StandardKeys,
                question_number |-> question_number,
                case_id |-> case.case_id,
                question_type |-> "standard",
                options |-> [i \in DOMAIN all_options.v |->
                                [id |-> i - 1, text |-> all_options.v[i]]],
                correct_answer |-> case.diagnosis,
                correct_index |->
                    correct_index_first_match(all_options.v, case.diagnosis),
                category |-> case.category,
                age_group |-> case.age_group,
                complexity |-> case.complexity],
         x |-> all_options.x,
         hangs |-> distractors.hangs])))

(* self.clinical_similarity_map, in the order of the dictionary. *)
clinical_similarity_map ==
    <<[category |-> "Depressive Disorders",
       diagnoses |-> <<"Major Depressive Disorder",
                       "Persistent Depressive Disorder",
                       "Disruptive Mood Dysregulation Disorder">>],
      [category |-> "Anxiety Disorders",
       diagnoses |-> <<"Generalized Anxiety Disorder", "Panic Disorder",
                       "Social Anxiety Disorder", "Specific Phobia">>],
      [category |-> "Schizophrenia Spectrum and Other Psychotic Disorders",
       diagnoses |-> <<"Schizophrenia", "Schizoaffective Disorder",
                       "Brief Psychotic Disorder", "Delusional Disorder">>],
      [category |-> "Personality Disorders",
       diagnoses |-> <<"Borderline Personality Disorder",
                       "Narcissistic Personality Disorder",
                       "Antisocial Personality Disorder",
                       "Avoidant Personality Disorder">>],
      [category |-> "Substance-Related and Addictive Disorders",
       diagnoses |-> <<"Alcohol Use Disorder", "Opioid Use Disorder",
                       "Stimulant Use Disorder", "Cannabis Use Disorder">>],
      [category |-> "Neurodevelopmental Disorders",
       diagnoses |-> <<"Attention-Deficit/Hyperactivity Disorder",
                       "Autism Spectrum Disorder", "Intellectual Disability",
                       "Specific Learning Disorder">>]>>

(* correct_answer.lower() in d.lower(): of the names of the model and of
   the map, one is part of another only where it starts it. *)
ContainedLower(correct_answer, d) == StartsWith(d, correct_answer)

(* The diagnoses of the map's categories that are the case's category or
   list a name holding the correct answer, one category after another. *)
RECURSIVE SimilarDiagnoses(_, _, _)
SimilarDiagnoses(entries, correct_answer, case_category) ==
    IF entries = <<>> THEN <<>>
    ELSE (IF \/ Head(entries).category = case_category
             \/ \E i \in DOMAIN Head(entries).diagnoses :
                   ContainedLower(correct_answer, Head(entries).diagnoses[i])
          THEN Head(entries).diagnoses ELSE <<>>)
         \o SimilarDiagnoses(Tail(entries), correct_answer, case_category)

_generate_smart_distractors(correct_answer, case_category, by_category, num_distractors, x) ==
    With(shuffle(SelectSeq(SimilarDiagnoses(clinical_similarity_map,
                                            correct_answer, case_category),
                           LAMBDA d : d # correct_answer), x),
    LAMBDA similar_diagnoses :
    With(Take(similar_diagnoses.v, num_distractors),
    LAMBDA distractors :
    IF Len(distractors) < num_distractors
    THEN With(_generate_distractors(correct_answer, case_category,
                  by_category, num_distractors - Len(distractors),
                  similar_diagnoses.x),
              LAMBDA additional_distractors :
                  [v |-> Take(distractors \o additional_distractors.v,
                              num_distractors),
                   x |-> additional_distractors.x,
                   hangs |-> additional_distractors.hangs])
    ELSE [v |-> distractors, x |-> similar_diagnoses.x, hangs |-> FALSE]))

DifferentialKeys == StandardKeys \cup {"differential_info"}

(* all_options.index(correct_answer) *)
index(all_options, correct_answer) ==
    (CHOOSE i \in DOMAIN all_options :
        /\ all_options[i] = correct_answer
        /\ \A j \in 1..(i - 1) : all_options[j] # correct_answer) - 1

_create_differential_question(case, by_category, num_choices, question_number, x) ==
    With(_generate_smart_distractors(case.diagnosis, case.category,
                                     by_category, num_choices - 1, x),
    LAMBDA distractors :
    With(shuffle(<<case.diagnosis>> \o distractors.v, distractors.x),
    LAMBDA all_options :
        [v |-> [keys |-> DifferentialKeys,
                question_number |-> question_number,
                case_id |-> case.case_id,
                question_type |-> "differential_diagnosis",
                options |-> [i \in DOMAIN all_options.v |->
                                [id |-> i - 1, text |-> all_options.v[i]]],
                correct_answer |-> case.diagnosis,
                correct_index |-> index(all_options.v, case.diagnosis),
                category |-> case.category,
                age_group |-> case.age_group,
                complexity |-> case.complexity],
         x |-> all_options.x,
         hangs |-> distractors.hangs]))

MultiCaseKeys ==
    {"question_number", "question_text", "question_type", "cases",
     "diagnosis_options", "correct_mapping", "explanation", "reference"}

(* {case['case_id']: case['diagnosis'] for case in cases}: of two cases
   with one id the later one stays. *)
correct_mapping_by_diagnosis(cases) ==
    [d \in {cases[i].diagnosis : i \in DOMAIN cases} |-> d]
correct_mapping(cases) ==
    [id \in {cases[i].case_id : i \in DOMAIN cases} |->
        cases[CHOOSE i \in DOMAIN cases :
                  /\ cases[i].case_id = id
                  /\ \A j \in DOMAIN cases :
                         cases[j].case_id = id => j <= i].diagnosis]

(* Called with groups of three cases only. *)
_create_multi_case_matching_question(cases, question_number, x) ==
    With(shuffle([i \in DOMAIN cases |-> cases[i].diagnosis], x),
    LAMBDA shuffled_diagnoses :
        [v |-> [keys |-> MultiCaseKeys,
                question_number |-> question_number,
                question_type |-> "multi_case_matching",
                cases |-> [i \in DOMAIN cases |-> cases[i].case_id],
                diagnosis_options |->
                    [i \in DOMAIN shuffled_diagnoses.v |->
                        [id |-> i - 1, text |-> shuffled_diagnoses.v[i]]],
                correct_mapping |-> correct_mapping(cases)],
         x |-> shuffled_diagnoses.x,
         hangs |-> FALSE])

(* for i, case in enumerate(selected_cases): questions.append(...) *)
RECURSIVE StandardLoop(_, _, _, _, _, _)
StandardLoop(selected_cases, by_category, num_choices, questions, x, hangs) ==
    IF Len(questions) >= Len(selected_cases) \/ hangs
    THEN [v |-> questions, x |-> x, hangs |-> hangs]
    ELSE With(_create_question(selected_cases[Len(questions) + 1],
                               by_category, num_choices, Len(questions) + 1,
                               x),
              LAMBDA question :
                  StandardLoop(selected_cases, by_category, num_choices,
                               Append(questions, question.v), question.x,
                               question.hangs))

(* The same loop with differential_mode. *)
RECURSIVE DifferentialLoop(_, _, _, _, _, _)
DifferentialLoop(selected_cases, by_category, num_choices, questions, x, hangs) ==
    IF Len(questions) >= Len(selected_cases) \/ hangs
    THEN [v |-> questions, x |-> x, hangs |-> hangs]
    ELSE With(_create_differential_question(
                  selected_cases[Len(questions) + 1], by_category,
                  num_choices, Len(questions) + 1, x),
              LAMBDA question :
                  DifferentialLoop(selected_cases, by_category, num_choices,
                                   Append(questions, question.v), question.x,
                                   question.hangs))

(* for i in range(0, len(selected_cases), 3): a group of fewer than three
   cases makes no question. *)
RECURSIVE MultiCaseLoop(_, _, _, _)
MultiCaseLoop(selected_cases, i, questions, x) ==
    IF i >= Len(selected_cases) THEN [v |-> questions, x |-> x, hangs |-> FALSE]
    ELSE IF i + 3 <= Len(selected_cases)
    THEN With(_create_multi_case_matching_question(
                  SubSeq(selected_cases, i + 1, i + 3), (i \div 3) + 1, x),
              LAMBDA question :
                  MultiCaseLoop(selected_cases, i + 3,
                                Append(questions, question.v), question.x))
    ELSE MultiCaseLoop(selected_cases, i + 3, questions, x)

(* The questions as they are numbered when they are built. *)
renumber_never(questions) == questions
renumber(questions) ==
    [i \in DOMAIN questions |-> [questions[i] EXCEPT !.question_number = i]]

seed_never(config, x) == x
seed(config, x) ==
    IF config.seed # <<>> THEN RandomSeed(config.seed[1]) ELSE x

no_cases_accepted(filtered_cases) == FALSE
no_cases(filtered_cases) == filtered_cases = <<>>

difficulty_mapping(difficulty) ==
    CASE difficulty = "beginner" -> "easy"
      [] difficulty = "intermediate" -> "moderate"
      [] difficulty = "advanced" -> "high"
      [] difficulty = "expert" -> "high"
      [] OTHER -> difficulty

(* The recommended complexity with the one below and the one above it in
   easy, moderate, high; the list is used as a set. *)
_get_adaptive_complexities(p) ==
    LET recent_performance == p.performance_metrics.recent_performance
        actual_difficulties == <<"easy", "moderate", "high">>
        mapped_recommended ==
            difficulty_mapping(
                calculate_adaptive_difficulty(p, recent_performance))
        rec_index ==
            IF mapped_recommended \in SeqRange(actual_difficulties)
            THEN (CHOOSE i \in 1..3 :
                      actual_difficulties[i] = mapped_recommended) - 1
            ELSE 0
    IN  IF recent_performance = <<>> THEN {"easy"}
        ELSE {mapped_recommended}
             \cup (IF rec_index > 0
                   THEN {actual_difficulties[rec_index]} ELSE {})
             \cup (IF rec_index < 2
                   THEN {actual_difficulties[rec_index + 2]} ELSE {})

(* config['complexities'] after adaptive mode has set it and it is cut to
   the unlocked difficulties. *)
unlocked_complexities(g, p, config) ==
    LET requested == IF config.adaptive_mode /\ g.user_progress
                     THEN <<_get_adaptive_complexities(p)>>
                     ELSE config.complexities
    IN  IF g.user_progress
        THEN IF Truthy(requested)
             THEN <<requested[1] \cap p.unlock_status.unlocked_difficulties>>
             ELSE <<p.unlock_status.unlocked_difficulties>>
        ELSE requested

(* proficiency.accuracy < 70 *)
weak_categories(p) ==
    {category \in DOMAIN p.specialties :
        ~AccuracyAtLeast(p.specialties[category].accuracy, 70)}

(* A faulty variant: the cases are drawn without regard to weak
   categories. *)
adaptive_selection_unweighted(p, filtered_cases, num_questions, x) ==
    sample(filtered_cases, num_questions, x)

(* _adaptive_case_selection on a generator with a user_progress p. *)
_adaptive_case_selection(p, filtered_cases, num_questions, x) ==
    With(SelectSeq(filtered_cases,
                   LAMBDA case : case.category \in weak_categories(p)),
    LAMBDA weak_cases :
    With(IF Len(weak_cases) < num_questions \div 2
         THEN Len(weak_cases) ELSE num_questions \div 2,
    LAMBDA weak_to_select :
    With(IF weak_to_select > 0 THEN sample(weak_cases, weak_to_select, x)
         ELSE [v |-> <<>>, x |-> x],
    LAMBDA selected_weak :
    With(SelectSeq(filtered_cases,
                   LAMBDA case : case \notin SeqRange(selected_weak.v)),
    LAMBDA remaining_cases :
    With(num_questions - Len(selected_weak.v),
    LAMBDA remaining_needed :
    With(IF remaining_needed > 0 /\ remaining_cases # <<>>
         THEN sample(remaining_cases,
                     IF remaining_needed < Len(remaining_cases)
                     THEN remaining_needed ELSE Len(remaining_cases),
                     selected_weak.x)
         ELSE [v |-> <<>>, x |-> selected_weak.x],
    LAMBDA additional_cases :
        [v |-> Take(selected_weak.v \o additional_cases.v, num_questions),
         x |-> additional_cases.x]))))))

(* num_questions once it is cut to the cases there are. *)
questions_to_build(config, available) ==
    LET asked == IF available < config.num_questions
                 THEN available ELSE config.num_questions
    IN IF config.multi_case_matching /\ available < asked * 3
       THEN available \div 3 ELSE asked

(* generate_quiz(config) on generator g, whose user_progress is p when it
   has one, with the random module in state x: what it raises, the quiz it
   returns and the state it leaves the random module in.  The modes
   modelled are the standard one, multi_case_matching, adaptive_mode and
   differential_mode; the config is [seed, num_questions, num_choices,
   shuffle, multi_case_matching, categories, complexities, adaptive_mode,
   differential_mode], seed, categories and complexities optional. *)
generate_quiz(g, p, config, x) ==
    With(seed(config, x),
    LAMBDA seeded :
    With(unlocked_complexities(g, p, config),
    LAMBDA complexities :
    With(get_filtered_cases(g.data_loader.cases, config.categories,
                            complexities),
    LAMBDA filtered_cases :
    IF no_cases(filtered_cases)
    THEN [raised |-> "ValueError", ret |-> <<>>, x |-> seeded,
          hangs |-> FALSE]
    ELSE
    With(questions_to_build(config, Len(filtered_cases)),
    LAMBDA num_questions :
    With(IF config.multi_case_matching THEN num_questions * 3
         ELSE num_questions,
    LAMBDA cases_needed :
    With(IF config.adaptive_mode /\ g.user_progress
         THEN _adaptive_case_selection(p, filtered_cases, cases_needed,
                                       seeded)
         ELSE sample(filtered_cases, cases_needed, seeded),
    LAMBDA selected_cases :
    With(IF config.multi_case_matching
         THEN MultiCaseLoop(selected_cases.v, 0, <<>>, selected_cases.x)
         ELSE IF config.differential_mode
         THEN DifferentialLoop(selected_cases.v,
                           diagnosis_by_category(g.data_loader.diagnoses),
                           config.num_choices, <<>>, selected_cases.x, FALSE)
         ELSE StandardLoop(selected_cases.v,
                           diagnosis_by_category(g.data_loader.diagnoses),
                           config.num_choices, <<>>, selected_cases.x, FALSE),
    LAMBDA built :
    IF built.hangs
    THEN [raised |-> "None", ret |-> <<>>, x |-> built.x, hangs |-> TRUE]
    ELSE
    With(IF config.shuffle
         THEN With(shuffle(built.v, built.x), LAMBDA shuffled :
                   [v |-> renumber(shuffled.v), x |-> shuffled.x])
         ELSE [v |-> built.v, x |-> built.x],
    LAMBDA questions :
        [raised |-> "None",
         ret |-> <<[keys |-> QuizKeys,
                    questions_is_list |-> TRUE,
                    quiz_metadata |->
                        [total_questions |-> Len(questions.v),
                         num_choices |-> config.num_choices,
                         configuration |->
                             [config EXCEPT !.complexities = complexities]],
                    questions |-> questions.v]>>,
         x |-> questions.x, hangs |-> FALSE]))))))))

(* The data a loader holds: cases.json and diagnoses.json. *)
Case(case_id, diagnosis, category, age_group, complexity) ==
    [case_id |-> case_id, diagnosis |-> diagnosis, category |-> category,
     age_group |-> age_group, complexity |-> complexity]

Diagnosis(name, category) == [name |-> name, category |-> category]

Cases ==
    <<Case("CASE-001", "Generalized Anxiety Disorder", "Anxiety Disorders",
           "adult", "beginner"),
      Case("CASE-002", "Panic Disorder", "Anxiety Disorders", "child",
           "beginner"),
      Case("CASE-003", "Major Depressive Disorder", "Depressive Disorders",
           "adult", "intermediate"),
      Case("CASE-004", "Borderline Personality Disorder",
           "Personality Disorders", "adult", "beginner"),
      Case("CASE-005", "Social Anxiety Disorder", "Anxiety Disorders",
           "adolescent", "advanced"),
      Case("CASE-006", "Persistent Depressive Disorder",
           "Depressive Disorders", "older_adult", "beginner"),
      Case("CASE-007", "Panic Disorder", "Anxiety Disorders", "adult",
           "intermediate")>>

DiagnosesUsual ==
    <<Diagnosis("Generalized Anxiety Disorder", "Anxiety Disorders"),
      Diagnosis("Panic Disorder", "Anxiety Disorders"),
      Diagnosis("Major Depressive Disorder", "Depressive Disorders"),
      Diagnosis("Social Anxiety Disorder", "Anxiety Disorders"),
      Diagnosis("Persistent Depressive Disorder", "Depressive Disorders"),
      Diagnosis("Borderline Personality Disorder", "Personality Disorders")>>

(* A name listed twice. *)
DiagnosesRepeated ==
    <<Diagnosis("Generalized Anxiety Disorder", "Anxiety Disorders"),
      Diagnosis("Panic Disorder", "Anxiety Disorders"),
      Diagnosis("Generalized Anxiety Disorder", "Anxiety Disorders"),
      Diagnosis("Major Depressive Disorder", "Depressive Disorders")>>

(* Different names, one of which starts with another. *)
DiagnosesPrefixed ==
    <<Diagnosis("Panic Disorder", "Anxiety Disorders"),
      Diagnosis("Panic Disorder with Agoraphobia", "Anxiety Disorders"),
      Diagnosis("Generalized Anxiety Disorder", "Anxiety Disorders"),
      Diagnosis("Major Depressive Disorder", "Depressive Disorders")>>

DiagnosesNone == <<>>

(* QuizGenerator(data_loader, user_progress) *)
Generators ==
    {[data_loader |-> [cases |-> Cases, diagnoses |-> d], user_progress |-> FALSE] :
        d \in {DiagnosesUsual, DiagnosesRepeated, DiagnosesPrefixed,
               DiagnosesNone}}
    \cup {[data_loader |-> [cases |-> Cases, diagnoses |-> DiagnosesUsual],
           user_progress |-> TRUE]}

QuizConfig(s, num_questions, num_choices, shuffled, multi_case_matching, categories, complexities) ==
    [seed |-> s, num_questions |-> num_questions,
     num_choices |-> num_choices, shuffle |-> shuffled,
     multi_case_matching |-> multi_case_matching,
     categories |-> categories, complexities |-> complexities,
     adaptive_mode |-> FALSE, differential_mode |-> FALSE]

QuizConfigs ==
    {QuizConfig(s, n, c, sh, FALSE, <<>>, <<>>) :
        s \in {<<>>, <<42>>}, n \in {1, 3}, c \in {2, 4}, sh \in BOOLEAN}
    \cup {QuizConfig(s, 2, 3, sh, TRUE, <<>>, <<>>) :
        s \in {<<>>, <<42>>}, sh \in BOOLEAN}
    \cup {QuizConfig(<<42>>, 3, 3, TRUE, m, <<{"Anxiety Disorders"}>>, <<>>) :
        m \in BOOLEAN}
    \cup {QuizConfig(s, 5, 4, TRUE, FALSE, <<{"nonexistent_category"}>>, <<>>) :
        s \in {<<>>, <<42>>}}
    \cup {QuizConfig(<<7>>, 2, 3, FALSE, FALSE, <<>>, <<{"advanced"}>>),
          QuizConfig(<<7>>, 2, 3, FALSE, FALSE, <<>>, <<{"expert"}>>)}
    \cup {QuizConfig(<<7>>, 2, 1, FALSE, FALSE, <<>>, <<>>),
          QuizConfig(<<7>>, 1, 7, FALSE, FALSE, <<>>, <<>>)}
    \cup {QuizConfig(<<42>>, 1, 3, FALSE, TRUE,
                      <<{"Depressive Disorders"}>>, <<>>)}

(* A call that does not return leaves its caller in it for good. *)
GenerateQuiz ==
    /\ last_call.raised # "hangs"
    /\ \E config \in QuizConfigs :
         \E r \in {generate_quiz(generator, progress, config, random)} :
            /\ Counted
            /\ random' = r.x
            /\ last_call' = Call("generate_quiz", <<config>>,
                                 IF r.hangs THEN "hangs" ELSE r.raised, r.ret)
    /\ UNCHANGED <<frames, progress, achievements, difficulty_tiers, now, scoring,
                   generator>>

(* The random module starts from the system's entropy: in a state nothing
   in the program determines. *)
EntropyStates == {1, 2, 3, 5, 8, 13, 21, 34}

InitGenerator ==
    /\ progress = NewUserProgress
    /\ now = [day |-> 0, sec |-> 0]
    /\ last_call = NoCall
    /\ calls = 0
    /\ frames = NoFrames
    /\ achievements = CatalogNone
    /\ difficulty_tiers = TiersNone
    /\ scoring = NewScoring(FALSE)
    /\ generator \in Generators
    /\ random \in EntropyStates

NextGenerator ==
    \/ GenerateQuiz

SpecGenerator == InitGenerator /\ [][NextGenerator]_vars

(* The quiz the last generate_quiz call returned, and its request. *)
Returned == last_call.op = "generate_quiz" /\ last_call.ret # <<>>
ReturnedQuiz == last_call.ret[1]
Requested == last_call.args[1]

(* C16: for a fixed seed, fixed case and diagnosis pools and the same
   progress state, two generate_quiz calls with identical configuration
   return identical question lists: the same cases in the same order, the
   same option order and the same correct indices. *)
C16_SeededGenerationRepeats ==
    [][(/\ last_call.op = "generate_quiz"
        /\ last_call'.op = "generate_quiz"
        /\ last_call.args[1].seed # <<>>
        /\ last_call'.args = last_call.args
        /\ generator' = generator /\ progress' = progress)
          => /\ last_call'.raised = last_call.raised
             /\ last_call'.ret = <<>> <=> last_call.ret = <<>>
             /\ last_call.ret # <<>> =>
                  last_call'.ret[1].questions = last_call.ret[1].questions]_vars

(* The seeded request of three shuffled questions answered a second time. *)
C16_Witness ==
    /\ calls = 2
    /\ Returned
    /\ Requested = QuizConfig(<<42>>, 3, 4, TRUE, FALSE, <<>>, <<>>)
    /\ Len(ReturnedQuiz.questions) = 3
    /\ random = generate_quiz(generator, progress, Requested, 1).x

StandardQuiz == Returned /\ ~Requested.multi_case_matching

Labels(question) ==
    [i \in DOMAIN question.options |-> question.options[i].text.label]

(* C17: every standard question built by generate_quiz, for any case, any
   diagnosis catalog and any choice count n >= 2, has exactly n options,
   no two of them the same diagnosis label, and the case's true diagnosis
   among them exactly once. *)
C17_OptionsDistinct ==
    (StandardQuiz /\ Requested.num_choices >= 2) =>
        \A k \in DOMAIN ReturnedQuiz.questions :
            LET question == ReturnedQuiz.questions[k]
                labels == Labels(question)
            IN /\ Len(question.options) = Requested.num_choices
               /\ \A i, j \in DOMAIN labels : labels[i] = labels[j] => i = j
               /\ Cardinality({i \in DOMAIN labels :
                                  labels[i] = question.correct_answer}) = 1

(* A question on panic disorder whose four options name generalized
   anxiety disorder twice. *)
C17_Witness ==
    /\ StandardQuiz
    /\ Requested.num_choices = 4
    /\ \E k \in DOMAIN ReturnedQuiz.questions :
         LET question == ReturnedQuiz.questions[k]
         IN /\ question.correct_answer = "Panic Disorder"
            /\ Len(question.options) = 4
            /\ Cardinality({i \in DOMAIN question.options :
                   Labels(question)[i] = "Generalized Anxiety Disorder"}) = 2

DistinctNames(all_diagnoses) ==
    \A i, j \in DOMAIN all_diagnoses :
        all_diagnoses[i].name = all_diagnoses[j].name => i = j

(* C18: in every standard question correct_index is the position, in the
   final shuffled option list, of the option built from the case's true
   diagnosis, never that of a distractor, for any catalog of distinct
   diagnosis labels, with or without specifier suffixes. *)
C18_CorrectIndexIsTrueDiagnosis ==
    (StandardQuiz /\ DistinctNames(generator.data_loader.diagnoses)) =>
        \A k \in DOMAIN ReturnedQuiz.questions :
            LET question == ReturnedQuiz.questions[k]
            IN /\ question.correct_index \in 0..(Len(question.options) - 1)
               /\ Labels(question)[question.correct_index + 1]
                      = question.correct_answer

(* correct_index is the slot of "Panic Disorder with Agoraphobia", a
   distractor, in a question on panic disorder. *)
C18_Witness ==
    /\ StandardQuiz
    /\ DistinctNames(generator.data_loader.diagnoses)
    /\ \E k \in DOMAIN ReturnedQuiz.questions :
         LET question == ReturnedQuiz.questions[k]
         IN /\ question.correct_answer = "Panic Disorder"
            /\ Labels(question)[question.correct_index + 1]
                   = "Panic Disorder with Agoraphobia"

(* C19: in every quiz generate_quiz returns, in every mode and with
   shuffle on or off, the questions' ordinal numbers read in list order
   are exactly 1, 2, ..., N, N the number of questions returned. *)
C19_OrdinalsContiguous ==
    Returned =>
        \A i \in DOMAIN ReturnedQuiz.questions :
            ReturnedQuiz.questions[i].question_number = i

(* A shuffled quiz whose first question was not built first: its case is
   not the first case drawn. *)
C19_Witness ==
    /\ StandardQuiz
    /\ Requested = QuizConfig(<<42>>, 3, 4, TRUE, FALSE, <<>>, <<>>)
    /\ Len(ReturnedQuiz.questions) = 3
    /\ ReturnedQuiz.questions[1].case_id
           # sample(Cases, 3, RandomSeed(42)).v[1].case_id
    /\ \A i \in 1..3 : ReturnedQuiz.questions[i].question_number = i

(* The cases the configured filters leave: the category filter, and the
   complexity filter after the generator has cut it to the unlocked
   difficulties; an empty list filters nothing. *)
FilteredPool(config) ==
    LET unlocked == progress.unlock_status.unlocked_difficulties
        complexities ==
            IF ~generator.user_progress THEN config.complexities
            ELSE IF config.complexities = <<>> \/ config.complexities[1] = {}
            THEN <<unlocked>>
            ELSE <<config.complexities[1] \cap unlocked>>
    IN {i \in DOMAIN generator.data_loader.cases :
           LET case == generator.data_loader.cases[i]
           IN /\ (config.categories # <<>> /\ config.categories[1] # {})
                     => case.category \in config.categories[1]
              /\ (complexities # <<>> /\ complexities[1] # {})
                     => case.complexity \in complexities[1]}

(* C20: generate_quiz fails with a configuration error (a ValueError, "No
   cases match the specified criteria") and returns no quiz whenever the
   case pool left after applying the configured filters is empty. *)
C20_EmptyPoolRaises ==
    (last_call.op = "generate_quiz" /\ FilteredPool(Requested) = {}) =>
        last_call.raised = "ValueError" /\ last_call.ret = <<>>

C20_Witness ==
    /\ last_call.op = "generate_quiz"
    /\ Requested.categories = <<{"nonexistent_category"}>>
    /\ FilteredPool(Requested) = {}
    /\ last_call.raised = "ValueError"
    /\ last_call.ret = <<>>

(* C21: in standard generation with a non-empty filtered pool
   generate_quiz returns exactly min(requested question count, size of
   the filtered pool) questions, each built from a different case of the
   filtered pool, and quiz_metadata.total_questions is the number of
   questions returned. *)
C21_SampleWithoutReplacement ==
    (StandardQuiz /\ FilteredPool(Requested) # {}) =>
        LET questions == ReturnedQuiz.questions
            pool == FilteredPool(Requested)
            available == Cardinality(pool)
        IN /\ Len(questions) = IF Requested.num_questions < available
                               THEN Requested.num_questions ELSE available
           /\ \A i, j \in DOMAIN questions :
                  questions[i].case_id = questions[j].case_id => i = j
           /\ \A i \in DOMAIN questions :
                  \E k \in pool :
                      generator.data_loader.cases[k].case_id
                          = questions[i].case_id
           /\ ReturnedQuiz.quiz_metadata.total_questions = Len(questions)

(* Two questions asked of a pool of one advanced case: one question. *)
C21_Witness ==
    /\ StandardQuiz
    /\ Requested.num_questions = 2
    /\ Cardinality(FilteredPool(Requested)) = 1
    /\ Len(ReturnedQuiz.questions) = 1
    /\ ReturnedQuiz.quiz_metadata.total_questions = 1

MultiCaseQuiz == Returned /\ Requested.multi_case_matching

(* C22: every multi-case matching question generate_quiz emits has exactly
   3 cases, exactly 3 diagnosis options and a correct mapping whose key
   set is the ids of its 3 cases; a trailing group of fewer than 3
   selected cases never becomes a question, whatever number of cases the
   selection hands to the loop. *)
C22_MultiCaseIntegrity ==
    /\ MultiCaseQuiz =>
         \A k \in DOMAIN ReturnedQuiz.questions :
            LET question == ReturnedQuiz.questions[k]
            IN /\ question.question_type = "multi_case_matching"
               /\ Len(question.cases) = 3
               /\ Len(question.diagnosis_options) = 3
               /\ DOMAIN question.correct_mapping = SeqRange(question.cases)
    /\ last_call.op = "generate_quiz" =>
         \A n \in 0..Len(generator.data_loader.cases) :
            LET selected_cases == Take(generator.data_loader.cases, n)
                questions == MultiCaseLoop(selected_cases, 0, <<>>, random).v
            IN /\ Len(questions) = n \div 3
               /\ \A k \in DOMAIN questions :
                     questions[k].cases =
                         [i \in 1..3 |-> selected_cases[3 * (k - 1) + i].case_id]

(* Two matching questions on six different cases, two of which share the
   diagnosis panic disorder. *)
C22_Witness ==
    /\ MultiCaseQuiz
    /\ Len(ReturnedQuiz.questions) = 2
    /\ Cardinality(UNION {SeqRange(ReturnedQuiz.questions[k].cases) :
                              k \in 1..2}) = 6
    /\ \E k \in 1..2 :
          Cardinality({ReturnedQuiz.questions[k].diagnosis_options[i].text :
                           i \in 1..3}) = 2
    /\ Len(MultiCaseLoop(Take(generator.data_loader.cases, 5), 0, <<>>,
                         random).v) = 1

(* The ids of the cases a returned quiz uses, and the complexity of the
   loader's case with an id. *)
CasesUsed ==
    UNION {IF ReturnedQuiz.questions[k].question_type = "multi_case_matching"
           THEN SeqRange(ReturnedQuiz.questions[k].cases)
           ELSE {ReturnedQuiz.questions[k].case_id} :
               k \in DOMAIN ReturnedQuiz.questions}

ComplexityOf(case_id) ==
    LET cases == generator.data_loader.cases
    IN cases[CHOOSE i \in DOMAIN cases : cases[i].case_id = case_id].complexity

(* C23: when a progress object is supplied to the generator, every case
   used in the quiz generate_quiz returns has a complexity of the user's
   unlocked-difficulty set, whatever complexities the configuration
   requests. *)
C23_OnlyUnlockedComplexities ==
    (Returned /\ generator.user_progress) =>
        \A case_id \in CasesUsed :
            ComplexityOf(case_id) \in progress.unlock_status.unlocked_difficulties

(* Only beginner is unlocked, advanced cases are requested, and the quiz
   holds a case that is neither. *)
C23_Witness ==
    /\ Returned
    /\ generator.user_progress
    /\ progress.unlock_status.unlocked_difficulties = {"beginner"}
    /\ Requested.complexities = <<{"advanced"}>>
    /\ \E case_id \in CasesUsed : ComplexityOf(case_id) = "intermediate"

(* The sizes the configuration's fields are cut to. *)
MaxNumQuestions == 50
MinNumChoices == 2
MaxNumChoices == 6

(* C24: for any requested num_questions and num_choices the quiz
   generate_quiz returns has at most 50 questions and every standard
   question has between 2 and 6 options. *)
C24_SizesClamped ==
    Returned =>
        /\ Len(ReturnedQuiz.questions) <= MaxNumQuestions
        /\ \A k \in DOMAIN ReturnedQuiz.questions :
              ReturnedQuiz.questions[k].question_type = "standard" =>
                  Len(ReturnedQuiz.questions[k].options)
                      \in MinNumChoices..MaxNumChoices

(* A question with the seven options that were asked for. *)
C24_Witness ==
    /\ StandardQuiz
    /\ Requested.num_choices = 7
    /\ \E k \in DOMAIN ReturnedQuiz.questions :
          Len(ReturnedQuiz.questions[k].options) = 7

(* C25: the XP awarded for a scored session is
   max(10, floor((B + accuracy bonus + speed bonus + complexity-mastery
   bonus) x m)), B = floor(10 x total score), m the streak multiplier the
   user held before any answer of this session updated the streak; every
   scored session awards at least 10 XP. *)
C25_SessionXpUsesPriorMultiplier ==
    [][(/\ last_call'.op = "calculate_scores"
        /\ scoring.user_progress
        /\ scoring.quiz_data # <<>>)
          => LET stats == last_call'.ret[1]
                 B == 10 * stats.total_score
                 m == progress.streak_data.streak_multiplier
                 xp == ((B + accuracy_bonus(stats, B) + time_bonus(stats, B)
                         + difficulty_bonus(stats, B)) * m) \div 100
                 awarded == IF xp > 10 THEN xp ELSE 10
             IN  /\ scoring'.session_xp_earned = awarded
                 /\ awarded >= 10
                 /\ progress'.total_xp >= progress.total_xp + awarded
                 /\ EarnedIds(progress') = EarnedIds(progress)
                        => progress'.total_xp = progress.total_xp + awarded]_vars

(* A second session of five right answers: 92 XP before the multiplier,
   scored at the 1.25 of the streak of five it began with, while its own
   answers took the streak to ten and the multiplier to 1.5. *)
C25_Witness ==
    /\ last_call.op = "calculate_scores"
    /\ calls = 2
    /\ scoring.session_xp_earned = 115
    /\ progress.streak_data.current_streak = 10
    /\ progress.streak_data.streak_multiplier = 150

(* C26: add_xp returns the new total XP, whether the level rose during
   the call, and the ids of every achievement newly awarded as a result of
   the call: an id is in the returned list if and only if it was not
   earned before the call and is earned when the call returns, including
   achievements awarded by level-ups while achievement XP was granted. *)
C26_AddXpReturnsNewAchievements ==
    [][last_call'.op = "add_xp" =>
          /\ last_call'.ret[1] = progress'.total_xp
          /\ last_call'.ret[2] = (progress'.level > progress.level)
          /\ SeqRange(last_call'.ret[3])
                 = EarnedIds(progress') \ EarnedIds(progress)]_vars

(* add_xp has returned level_10 alone, and level_25 was earned while the
   XP of level_10 was granted. *)
C26_Witness ==
    /\ last_call.op = "add_xp"
    /\ calls = 1
    /\ last_call.ret[3] = <<"level_10">>
    /\ EarnedIds(progress) = {"level_10", "level_25"}

---------------------------------------------------------------------------
(* Requests for an adaptive difficulty. *)

(* A window of n results of which the first are right, each taking the
   same time. *)
UniformWindow(n, right, time_taken) ==
    [i \in 1..n |->
        [accuracy |-> IF i <= right THEN 100 ELSE 0,
         time_taken |-> time_taken,
         category |-> "mood_disorders", difficulty |-> "beginner"]]

WindowAccuracies ==
    {<<0, 0>>, <<1, 1>>, <<1, 0>>, <<4, 3>>, <<4, 2>>, <<5, 3>>, <<5, 4>>,
     <<7, 4>>, <<7, 5>>, <<9, 8>>, <<10, 9>>, <<20, 18>>, <<20, 17>>,
     <<20, 15>>, <<20, 14>>, <<20, 12>>, <<20, 11>>}

Windows ==
    {UniformWindow(a[1], a[2], time_taken) :
        a \in WindowAccuracies, time_taken \in {20, 119, 120}}

CalculateAdaptiveDifficulty ==
    /\ \E recent_performance \in Windows :
          last_call' = Call("calculate_adaptive_difficulty",
                            <<recent_performance>>, "None",
                            <<calculate_adaptive_difficulty(
                                  progress, recent_performance)>>)
    /\ UNCHANGED <<frames, progress, Config, now, scoring, calls>>

(* A UserProgress that gains XP and is asked for a difficulty. *)
InitAdaptive ==
    /\ InitProgress
    /\ \E c \in {<<CatalogNone, TiersNone>>, <<CatalogUsual, TiersUsual>>} :
          achievements = c[1] /\ difficulty_tiers = c[2]
    /\ scoring = NewScoring(FALSE)

NextAdaptive ==
    \/ AddXp
    \/ CalculateAdaptiveDifficulty

SpecAdaptive == InitAdaptive /\ [][NextAdaptive]_vars

(* The first tier of a chain that is unlocked, beginner when none is. *)
FirstUnlocked(chain) ==
    LET unlocked == progress.unlock_status.unlocked_difficulties
        found == {i \in DOMAIN chain : chain[i] \in unlocked}
    IN  IF found = {} THEN "beginner"
        ELSE chain[CHOOSE i \in found : \A j \in found : i <= j]

(* C27: calculate_adaptive_difficulty always returns a tier the user has
   unlocked, chosen by the routing: an empty window gives beginner; mean
   accuracy >= 90 and mean time < 120 s gives the first unlocked of
   expert, advanced, intermediate, beginner; otherwise mean accuracy >= 75
   gives the first unlocked of advanced, intermediate, beginner; otherwise
   >= 60 gives intermediate when unlocked, else beginner; below 60 gives
   beginner. *)
C27_AdaptiveDifficultyRouting ==
    last_call.op = "calculate_adaptive_difficulty" =>
        LET window == last_call.args[1]
            n == Len(window)
            hundredths == SumSeq([i \in 1..n |-> window[i].accuracy])
            seconds == SumSeq([i \in 1..n |-> window[i].time_taken])
            tier == last_call.ret[1]
        IN  /\ tier \in progress.unlock_status.unlocked_difficulties
            /\ tier =
                 IF n = 0 THEN "beginner"
                 ELSE IF hundredths >= 90 * n /\ seconds < 120 * n
                 THEN FirstUnlocked(<<"expert", "advanced", "intermediate">>)
                 ELSE IF hundredths >= 75 * n
                 THEN FirstUnlocked(<<"advanced", "intermediate">>)
                 ELSE IF hundredths >= 60 * n
                 THEN FirstUnlocked(<<"intermediate">>)
                 ELSE "beginner"

(* Nine of ten right in 20 s each with expert still locked: advanced. *)
C27_Witness ==
    /\ last_call.op = "calculate_adaptive_difficulty"
    /\ last_call.args[1] = UniformWindow(10, 9, 20)
    /\ "advanced" \in progress.unlock_status.unlocked_difficulties
    /\ "expert" \notin progress.unlock_status.unlocked_difficulties
    /\ last_call.ret[1] = "advanced"

---------------------------------------------------------------------------
(* The recent-performance window over a user's results.  A result's
   time_taken is its arrival number, which tells the results apart. *)

RecordCaseResult ==
    /\ progress.performance_metrics.total_cases < MaxCases
    /\ \E is_correct \in BOOLEAN :
          /\ is_correct
             \/ progress.performance_metrics.total_cases
                  - progress.performance_metrics.correct_diagnoses < MaxWrong
          /\ DoUpdatePerformanceMetrics(
                 [is_correct |-> is_correct,
                  time_taken |-> progress.performance_metrics.total_cases + 1,
                  category |-> "mood_disorders", difficulty |-> "beginner"])
    /\ UNCHANGED <<frames, Config, now, scoring, calls>>

InitMetrics ==
    /\ InitProgress
    /\ achievements = CatalogNone
    /\ difficulty_tiers = TiersNone
    /\ scoring = NewScoring(FALSE)

NextMetrics ==
    \/ RecordCaseResult

SpecMetrics == InitMetrics /\ [][NextMetrics]_vars

(* C28: the recent-performance window never holds more than 20 entries:
   after k update_performance_metrics calls it holds the most recent
   min(k, 20) results in arrival order, the oldest evicted first, and the
   improvement trend is 0 while it holds fewer than 10 entries. *)
C28_WindowKeepsLastTwenty ==
    LET metrics == progress.performance_metrics
        k == metrics.total_cases
        window == metrics.recent_performance
        n == IF k < 20 THEN k ELSE 20
    IN  /\ Len(window) = n
        /\ \A i \in 1..n : window[i].time_taken = k - n + i
        /\ Len(window) < 10 => metrics.improvement_trend[1] = 0

(* 22 results, the second of them wrong: the window begins with the third
   and the wrong one is gone. *)
C28_Witness ==
    /\ progress.performance_metrics.total_cases = 22
    /\ progress.performance_metrics.correct_diagnoses = 21
    /\ Len(progress.performance_metrics.recent_performance) = 20
    /\ progress.performance_metrics.recent_performance[1].time_taken = 3
    /\ \A i \in 1..20 :
          progress.performance_metrics.recent_performance[i].accuracy = 100

---------------------------------------------------------------------------
(* Adaptive quizzes: a generator with a UserProgress whose user has
   practised. *)

PractisedCategories == {"Anxiety Disorders", "Depressive Disorders"}

CasesCompleted(p, category) ==
    IF category \in DOMAIN p.specialties
    THEN p.specialties[category].cases_completed ELSE 0

PractiseCase ==
    /\ CasesCompleted(progress, "Anxiety Disorders")
         + CasesCompleted(progress, "Depressive Disorders") < MaxPractised
    /\ \E category \in PractisedCategories, is_correct \in BOOLEAN :
          DoUpdateSpecialtyProficiency(category, is_correct, 20, 10)
    /\ UNCHANGED <<frames, Config, now, scoring, calls>>

AdaptiveQuizConfigs ==
    {[QuizConfig(s, n, 3, FALSE, FALSE, <<>>, <<>>)
         EXCEPT !.adaptive_mode = TRUE] : s \in {<<>>, <<42>>}, n \in {2, 5}}
    \cup {[QuizConfig(<<42>>, 3, 3, TRUE, FALSE,
                      <<{"Anxiety Disorders", "Depressive Disorders"}>>, <<>>)
              EXCEPT !.adaptive_mode = TRUE]}

GenerateAdaptiveQuiz ==
    /\ last_call.raised # "hangs"
    /\ \E config \in AdaptiveQuizConfigs :
         \E r \in {generate_quiz(generator, progress, config, random)} :
            /\ Counted
            /\ random' = r.x
            /\ last_call' = Call("generate_quiz", <<config>>,
                                 IF r.hangs THEN "hangs" ELSE r.raised, r.ret)
    /\ UNCHANGED <<frames, progress, achievements, difficulty_tiers, now, scoring,
                   generator>>

InitAdaptiveQuiz ==
    /\ progress = NewUserProgress
    /\ now = [day |-> 0, sec |-> 0]
    /\ last_call = NoCall
    /\ calls = 0
    /\ frames = NoFrames
    /\ achievements = CatalogNone
    /\ difficulty_tiers = TiersNone
    /\ scoring = NewScoring(FALSE)
    /\ generator = [data_loader |-> [cases |-> Cases,
                                     diagnoses |-> DiagnosesUsual],
                    user_progress |-> TRUE]
    /\ random \in {1, 2}

NextAdaptiveQuiz ==
    \/ PractiseCase
    \/ UpdatePerformanceMetrics
    \/ GenerateAdaptiveQuiz

SpecAdaptiveQuiz == InitAdaptiveQuiz /\ [][NextAdaptiveQuiz]_vars

AdaptiveQuiz ==
    Returned /\ Requested.adaptive_mode /\ generator.user_progress

(* The cases the filters of the configuration used leave, that
   configuration being the one the quiz reports. *)
PoolUsed ==
    LET configuration == ReturnedQuiz.quiz_metadata.configuration
        cases == generator.data_loader.cases
    IN  {i \in DOMAIN cases :
            /\ (configuration.categories # <<>>
                /\ configuration.categories[1] # {})
                  => cases[i].category \in configuration.categories[1]
            /\ (configuration.complexities # <<>>
                /\ configuration.complexities[1] # {})
                  => cases[i].complexity \in configuration.complexities[1]}

(* The categories whose recorded accuracy is below 70%. *)
WeakCategories ==
    {category \in DOMAIN progress.specialties :
        progress.specialties[category].accuracy[1] * 100
            < 70 * progress.specialties[category].accuracy[2]}

(* C29: with adaptive_mode and a progress object, the selection of n
   cases from a pool of at least n returns exactly n pairwise different
   cases of the pool, of which at least min(W, floor(n/2)) belong to weak
   categories (recorded accuracy below 70%), W the number of
   weak-category cases in the pool. *)
C29_AdaptiveSelectionFavoursWeak ==
    AdaptiveQuiz =>
        LET cases == generator.data_loader.cases
            questions == ReturnedQuiz.questions
            n == IF Requested.num_questions < Cardinality(PoolUsed)
                 THEN Requested.num_questions ELSE Cardinality(PoolUsed)
            weak == {i \in PoolUsed : cases[i].category \in WeakCategories}
            selected == {i \in PoolUsed :
                            \E k \in DOMAIN questions :
                                questions[k].case_id = cases[i].case_id}
            least == IF Cardinality(weak) < n \div 2
                     THEN Cardinality(weak) ELSE n \div 2
        IN  /\ Len(questions) = n
            /\ Cardinality(selected) = n
            /\ Cardinality(selected \cap weak) >= least

(* Five cases for a user who is weak in depressive disorders: both
   depressive cases are among them. *)
C29_Witness ==
    /\ AdaptiveQuiz
    /\ Len(ReturnedQuiz.questions) = 5
    /\ WeakCategories = {"Depressive Disorders"}
    /\ {"CASE-003", "CASE-006"}
           \subseteq {ReturnedQuiz.questions[k].case_id : k \in 1..5}

(***************************************************************************)
(* Case combinations                                                       *)
(***************************************************************************)

(* remaining_cases after remaining_cases.remove(case) for each case of a
   combination. *)
Without(remaining_cases, combination) ==
    SelectSeq(remaining_cases, LAMBDA case : case \notin SeqRange(combination))

CategoriesOf(cases) == [i \in DOMAIN cases |-> cases[i].category]

(* list(set(...)) of category names: the names in the order the set
   iterates them, which depends on the hashes of the strings and is given
   here by an order over all category names. *)
ListOfSet(names, order) ==
    SelectSeq(order, LAMBDA name : name \in SeqRange(names))

(* 'similar': a category drawn from the remaining cases, and a sample of
   that category's cases, or of all remaining cases when the category has
   fewer than cases_per_combination. *)
similar_combination(remaining_cases, cases_per_combination, x) ==
    With(choice(CategoriesOf(remaining_cases), x), LAMBDA category :
    With(SelectSeq(remaining_cases, LAMBDA case : case.category = category.v),
         LAMBDA similar_cases :
    With(IF Len(similar_cases) >= cases_per_combination
         THEN sample(similar_cases, cases_per_combination, category.x)
         ELSE sample(remaining_cases, cases_per_combination, category.x),
         LAMBDA combination :
             [v |-> combination.v, remaining |-> remaining_cases,
              x |-> combination.x])))

(* 'contrasting': cases_per_combination times, a category drawn from those
   of the remaining cases and a case drawn from that category, which is
   removed from the remaining cases. *)
RECURSIVE ContrastingLoop(_, _, _, _, _)
ContrastingLoop(remaining_cases, combination, todo, order, x) ==
    IF todo = 0 \/ remaining_cases = <<>>
    THEN [v |-> combination, remaining |-> remaining_cases, x |-> x]
    ELSE With(choice(ListOfSet(CategoriesOf(remaining_cases), order), x),
              LAMBDA category :
         With(choice(SelectSeq(remaining_cases,
                               LAMBDA case : case.category = category.v),
                     category.x), LAMBDA case :
              ContrastingLoop(Without(remaining_cases, <<case.v>>),
                              Append(combination, case.v), todo - 1, order,
                              case.x)))

(* 'progression': one case drawn for each of the first
   cases_per_combination complexities that has a remaining case. *)
progression_complexities == <<"basic", "intermediate", "advanced", "expert">>

RECURSIVE ProgressionLoop(_, _, _, _)
ProgressionLoop(remaining_cases, combination, complexities, x) ==
    IF complexities = <<>>
    THEN [v |-> combination, remaining |-> remaining_cases, x |-> x]
    ELSE With(SelectSeq(remaining_cases,
                        LAMBDA case : case.complexity = Head(complexities)),
              LAMBDA complexity_cases :
         IF complexity_cases = <<>>
         THEN ProgressionLoop(remaining_cases, combination,
                              Tail(complexities), x)
         ELSE With(choice(complexity_cases, x), LAMBDA case :
                   ProgressionLoop(Without(remaining_cases, <<case.v>>),
                                   Append(combination, case.v),
                                   Tail(complexities), case.x)))

(* "Fill with random cases if needed". *)
fill_combination(r, cases_per_combination) ==
    IF Len(r.v) >= cases_per_combination THEN r
    ELSE With(cases_per_combination - Len(r.v), LAMBDA needed :
         With(sample(r.remaining,
                     IF needed < Len(r.remaining) THEN needed
                     ELSE Len(r.remaining), r.x), LAMBDA additional :
              [v |-> r.v \o additional.v, remaining |-> r.remaining,
               x |-> additional.x]))

one_combination(remaining_cases, cases_per_combination, combination_type, order, x) ==
    IF combination_type = "similar"
    THEN similar_combination(remaining_cases, cases_per_combination, x)
    ELSE IF combination_type = "contrasting"
    THEN fill_combination(
             ContrastingLoop(remaining_cases, <<>>, cases_per_combination,
                             order, x), cases_per_combination)
    ELSE fill_combination(
             ProgressionLoop(remaining_cases, <<>>,
                             Take(progression_complexities,
                                  cases_per_combination), x),
             cases_per_combination)

(* for _ in range(num_combinations), with the break when fewer than
   cases_per_combination cases remain. *)
RECURSIVE CombinationsLoop(_, _, _, _, _, _, _)
CombinationsLoop(remaining_cases, combinations, todo, cases_per_combination, combination_type, order, x) ==
    IF todo <= 0 \/ Len(remaining_cases) < cases_per_combination
    THEN [v |-> combinations, x |-> x]
    ELSE With(one_combination(remaining_cases, cases_per_combination,
                              combination_type, order, x), LAMBDA r :
              CombinationsLoop(Without(r.remaining, r.v),
                               Append(combinations, r.v), todo - 1,
                               cases_per_combination, combination_type,
                               order, r.x))

_generate_case_combinations(cases, num_combinations, cases_per_combination, combination_type, order, x) ==
    CombinationsLoop(cases, <<>>, num_combinations, cases_per_combination,
                     combination_type, order, x)

(* The orders in which a set of the category names can iterate. *)
CategoryOrders ==
    LET names == SeqRange(CategoriesOf(Cases))
    IN  {order \in [1..Cardinality(names) -> names] :
            \A i, j \in DOMAIN order : i # j => order[i] # order[j]}

CombinationRequests ==
    [num_combinations : 1..3, cases_per_combination : 1..3,
     combination_type : {"similar", "contrasting", "progression"}]

(* QuizGenerator._generate_case_combinations on the loader's cases. *)
GenerateCaseCombinations ==
    /\ \E request \in CombinationRequests, order \in CategoryOrders :
         \E r \in {_generate_case_combinations(
                       generator.data_loader.cases,
                       request.num_combinations,
                       request.cases_per_combination,
                       request.combination_type, order, random)} :
            /\ Counted
            /\ random' = r.x
            /\ last_call' = Call("_generate_case_combinations",
                                 <<generator.data_loader.cases, request>>,
                                 "None", <<r.v>>)
    /\ UNCHANGED <<frames, progress, achievements, difficulty_tiers, now, scoring,
                   generator>>

InitCombinations ==
    /\ progress = NewUserProgress
    /\ now = [day |-> 0, sec |-> 0]
    /\ last_call = NoCall
    /\ calls = 0
    /\ frames = NoFrames
    /\ achievements = CatalogNone
    /\ difficulty_tiers = TiersNone
    /\ scoring = NewScoring(FALSE)
    /\ generator = [data_loader |-> [cases |-> Cases,
                                     diagnoses |-> DiagnosesUsual],
                    user_progress |-> FALSE]
    /\ random \in 1..8

NextCombinations ==
    \/ GenerateCaseCombinations

SpecCombinations == InitCombinations /\ [][NextCombinations]_vars

Combined == last_call.op = "_generate_case_combinations"
Combinations == last_call.ret[1]
CombinationRequest == last_call.args[2]

(* The cases that remain when combination j is built. *)
RemainingBefore(j) ==
    {case \in SeqRange(last_call.args[1]) :
        \A i \in 1..(j - 1) : case \notin SeqRange(Combinations[i])}

CategoriesIn(cases) == {case.category : case \in cases}

(* The remaining pool allows a combination of k cases of one category, of
   k cases of pairwise different categories. *)
AllowsSimilar(remaining, k) ==
    \E category \in CategoriesIn(remaining) :
        Cardinality({case \in remaining : case.category = category}) >= k
AllowsContrasting(remaining, k) == Cardinality(CategoriesIn(remaining)) >= k

(* Every combination has exactly K cases and no case is in two
   combinations or twice in one. *)
CombinationsOfKDisjointCases ==
    Combined =>
        /\ \A j \in DOMAIN Combinations :
              /\ Len(Combinations[j]) = CombinationRequest.cases_per_combination
              /\ \A a, b \in DOMAIN Combinations[j] :
                    a # b => Combinations[j][a] # Combinations[j][b]
        /\ \A i, j \in DOMAIN Combinations :
              i # j => SeqRange(Combinations[i]) \cap SeqRange(Combinations[j]) = {}

(* C30: every combination built has exactly K cases, no case is used in
   two combinations, and whenever the cases remaining when a combination
   is built allow it, under 'similar' its K cases share one category and
   under 'contrasting' they have pairwise different categories. *)
C30_CombinationsRespectStrategy ==
    /\ CombinationsOfKDisjointCases
    /\ Combined =>
          \A j \in DOMAIN Combinations :
             LET k == CombinationRequest.cases_per_combination
                 categories == CategoriesIn(SeqRange(Combinations[j]))
             IN  /\ (/\ CombinationRequest.combination_type = "similar"
                     /\ AllowsSimilar(RemainingBefore(j), k))
                       => Cardinality(categories) = 1
                 /\ (/\ CombinationRequest.combination_type = "contrasting"
                     /\ AllowsContrasting(RemainingBefore(j), k))
                       => Cardinality(categories) = k

(* Two 'contrasting' cases of one category drawn from a pool of three
   categories. *)
C30_Witness ==
    /\ Combined
    /\ CombinationRequest.combination_type = "contrasting"
    /\ CombinationRequest.cases_per_combination = 2
    /\ Len(Combinations) >= 1
    /\ Len(Combinations[1]) = 2
    /\ Combinations[1][1].category = Combinations[1][2].category

(***************************************************************************)
(* One session, scored more than once                                      *)
(***************************************************************************)

(* A session is started only when none is active and reset_session clears
   session_xp_earned, so in SpecScoring a positive session_xp_earned says
   that the active session has already been applied to the progress. *)
SessionAlreadyApplied == scoring.quiz_data # <<>> /\ scoring.session_xp_earned > 0

(* C31: for one started session the XP, the streak, the proficiency and
   the performance metrics of the progress are updated at most once: a
   calculate_scores call on a session that has already been applied leaves
   the progress as it is. *)
C31_ProgressionAppliedOncePerSession ==
    [][(last_call'.op = "calculate_scores" /\ SessionAlreadyApplied)
          => progress' = progress]_vars

(* A session of five questions scored twice: ten results have entered the
   performance window. *)
C31_Witness ==
    /\ last_call.op = "calculate_scores"
    /\ Len(scoring.question_results) = 5
    /\ Len(progress.performance_metrics.recent_performance) = 10

(***************************************************************************)
(* Distractors on their own                                                *)
(***************************************************************************)

DistractorCatalogs == {DiagnosesUsual, DiagnosesRepeated, DiagnosesNone}
DistractorAnswers == {"Major Depressive Disorder", "Other Mood Disorder"}
DistractorCategories == {"Depressive Disorders", "Unknown"}

(* QuizGenerator._generate_distractors(correct_answer, case_category,
   diagnosis_by_category, num_distractors); a call that never returns
   is recorded as "hangs" and nothing follows it. *)
GenerateDistractors ==
    /\ last_call.raised # "hangs"
    /\ \E correct_answer \in DistractorAnswers,
          case_category \in DistractorCategories,
          all_diagnoses \in DistractorCatalogs,
          num_distractors \in 0..MaxDistractors :
         \E r \in {_generate_distractors(correct_answer, case_category,
                       diagnosis_by_category(all_diagnoses),
                       num_distractors, random)} :
            /\ Counted
            /\ random' = r.x
            /\ last_call' = Call("_generate_distractors",
                                 <<correct_answer, case_category,
                                   all_diagnoses, num_distractors>>,
                                 IF r.hangs THEN "hangs" ELSE "None",
                                 IF r.hangs THEN <<>> ELSE <<r.v>>)
    /\ UNCHANGED <<frames, progress, achievements, difficulty_tiers, now, scoring,
                   generator>>

InitDistractors ==
    /\ progress = NewUserProgress
    /\ now = [day |-> 0, sec |-> 0]
    /\ last_call = NoCall
    /\ calls = 0
    /\ frames = NoFrames
    /\ achievements = CatalogNone
    /\ difficulty_tiers = TiersNone
    /\ scoring = NewScoring(FALSE)
    /\ generator = [data_loader |-> [cases |-> Cases,
                                     diagnoses |-> DiagnosesUsual],
                    user_progress |-> FALSE]
    /\ random \in EntropyStates

NextDistractors ==
    \/ GenerateDistractors

SpecDistractors == InitDistractors /\ [][NextDistractors]_vars

DistractorsAsked == last_call.op = "_generate_distractors"

(* When no name of the catalog is listed twice and d is at most three
   more than the catalog has names, the call returns d labels that differ
   from each other and from the true diagnosis. *)
DistractorsWhenEnoughNames ==
    (/\ DistractorsAsked
     /\ last_call.args[3] # DiagnosesRepeated
     /\ last_call.args[4] <= Len(last_call.args[3]) + 3)
        => /\ last_call.raised = "None"
           /\ Len(last_call.ret[1]) = last_call.args[4]
           /\ last_call.args[1] \notin SeqRange(last_call.ret[1])
           /\ Cardinality(SeqRange(last_call.ret[1])) = last_call.args[4]

(* C33: for any true diagnosis, catalog and count d >= 0,
   _generate_distractors returns, with exactly d labels, none of them the
   true diagnosis and no two of them equal. *)
C33_DistractorsTerminateWithDLabels ==
    DistractorsAsked
        => /\ last_call.raised = "None"
           /\ Len(last_call.ret[1]) = last_call.args[4]
           /\ last_call.args[1] \notin SeqRange(last_call.ret[1])
           /\ Cardinality(SeqRange(last_call.ret[1])) = last_call.args[4]

(* Six distractors asked of an empty catalog, which the five generic
   names cannot supply: the call does not return. *)
C33_Witness ==
    /\ DistractorsAsked
    /\ last_call.args[3] = DiagnosesNone
    /\ last_call.args[4] = 6
    /\ last_call.raised = "hangs"

(***************************************************************************)
(* A returned quiz has questions                                           *)
(***************************************************************************)

(* C36: a quiz generate_quiz returns for a request of at least one
   question, in any mode, has at least one question. *)
C36_ReturnedQuizHasAQuestion ==
    (Returned /\ Requested.num_questions >= 1)
        => Len(ReturnedQuiz.questions) >= 1

(* One multi-case question asked of the two depressive cases: a quiz
   without questions is returned. *)
C36_Witness ==
    /\ Returned
    /\ Requested.multi_case_matching
    /\ Requested.num_questions = 1
    /\ ReturnedQuiz.questions = <<>>
    /\ ReturnedQuiz.quiz_metadata.total_questions = 0

(***************************************************************************)
(* Differential-diagnosis quizzes                                          *)
(***************************************************************************)

DifferentialQuizConfigs ==
    {[QuizConfig(s, n, c, sh, FALSE, <<>>, <<>>)
         EXCEPT !.differential_mode = TRUE] :
        s \in {<<>>, <<42>>}, n \in {1, 3}, c \in {2, 4}, sh \in BOOLEAN}

GenerateDifferentialQuiz ==
    /\ last_call.raised # "hangs"
    /\ \E config \in DifferentialQuizConfigs :
         \E r \in {generate_quiz(generator, progress, config, random)} :
            /\ Counted
            /\ random' = r.x
            /\ last_call' = Call("generate_quiz", <<config>>,
                                 IF r.hangs THEN "hangs" ELSE r.raised, r.ret)
    /\ UNCHANGED <<frames, progress, achievements, difficulty_tiers, now, scoring,
                   generator>>

InitDifferential ==
    /\ progress = NewUserProgress
    /\ now = [day |-> 0, sec |-> 0]
    /\ last_call = NoCall
    /\ calls = 0
    /\ frames = NoFrames
    /\ achievements = CatalogNone
    /\ difficulty_tiers = TiersNone
    /\ scoring = NewScoring(FALSE)
    /\ generator \in
          {[data_loader |-> [cases |-> Cases, diagnoses |-> d],
            user_progress |-> FALSE] : d \in {DiagnosesUsual, DiagnosesNone}}
    /\ random \in {1, 2, 3}

NextDifferential ==
    \/ GenerateDifferentialQuiz

SpecDifferential == InitDifferential /\ [][NextDifferential]_vars

DifferentialQuiz == Returned /\ Requested.differential_mode

OptionTexts(question) ==
    [i \in DOMAIN question.options |-> question.options[i].text]

(* Every differential question has num_choices options, the true
   diagnosis among them once, at correct_index. *)
DifferentialCountAndAnswer ==
    DifferentialQuiz =>
        \A k \in DOMAIN ReturnedQuiz.questions :
            LET question == ReturnedQuiz.questions[k]
                texts == OptionTexts(question)
            IN  /\ Len(texts) = Requested.num_choices
                /\ Cardinality({i \in DOMAIN texts :
                                   texts[i] = question.correct_answer}) = 1
                /\ texts[question.correct_index + 1] = question.correct_answer

(* C37: every differential-diagnosis question has exactly num_choices
   options, no two of them equal, and the case's true diagnosis is among
   them exactly once. *)
C37_DifferentialOptionsDistinct ==
    DifferentialQuiz =>
        \A k \in DOMAIN ReturnedQuiz.questions :
            LET question == ReturnedQuiz.questions[k]
                texts == OptionTexts(question)
            IN  /\ Len(texts) = Requested.num_choices
                /\ Cardinality(SeqRange(texts)) = Len(texts)
                /\ Cardinality({i \in DOMAIN texts :
                                   texts[i] = question.correct_answer}) = 1

(* Four options for a depressive case, one of which is there twice. *)
C37_Witness ==
    /\ DifferentialQuiz
    /\ Requested.num_choices = 4
    /\ \E k \in DOMAIN ReturnedQuiz.questions :
          /\ ReturnedQuiz.questions[k].category = "Depressive Disorders"
          /\ Len(ReturnedQuiz.questions[k].options) = 4
          /\ Cardinality(SeqRange(OptionTexts(ReturnedQuiz.questions[k]))) = 3

(***************************************************************************)
(* From the generator to the scoring                                       *)
(***************************************************************************)

SessionQuizConfigs ==
    {QuizConfig(<<42>>, n, 3, FALSE, FALSE, <<>>, <<>>) : n \in {1, 2}}
    \cup {[QuizConfig(<<>>, 2, 3, TRUE, FALSE, <<>>, <<>>)
              EXCEPT !.differential_mode = TRUE],
          QuizConfig(<<>>, 2, 3, FALSE, TRUE, <<>>, <<>>)}

(* The owner generates a quiz when no session is active. *)
GenerateSessionQuiz ==
    /\ scoring.quiz_data = <<>>
    /\ \E config \in SessionQuizConfigs :
         \E r \in {generate_quiz(generator, progress, config, random)} :
            /\ Counted
            /\ random' = r.x
            /\ last_call' = Call("generate_quiz", <<config>>, r.raised, r.ret)
    /\ UNCHANGED <<frames, progress, achievements, difficulty_tiers, now, scoring,
                   generator>>

(* start_quiz_session on the quiz generate_quiz has just returned. *)
StartGeneratedQuiz ==
    /\ Returned
    /\ Len(ReturnedQuiz.questions) >= 1
    /\ DoStartQuizSession(ReturnedQuiz)
    /\ UNCHANGED <<frames, progress, Config, now, calls>>

(* record_answer for the next question of the session, with its correct
   answer or another one. *)
RecordGeneratedAnswer ==
    /\ scoring.quiz_data # <<>>
    /\ \E question_number \in {Cardinality(DOMAIN scoring.user_answers) + 1} :
          /\ question_number <= Len(scoring.quiz_data[1].questions)
          /\ \E user_answer \in
                 {scoring.quiz_data[1].questions[question_number].correct_answer,
                  "Schizophrenia"} :
                DoRecordAnswer(question_number, user_answer, <<5>>)
    /\ UNCHANGED <<frames, progress, Config, now, calls>>

InitPipeline ==
    /\ progress = NewUserProgress
    /\ now = [day |-> 0, sec |-> 0]
    /\ last_call = NoCall
    /\ calls = 0
    /\ frames = NoFrames
    /\ achievements = CatalogNone
    /\ difficulty_tiers = TiersNone
    /\ scoring = NewScoring(FALSE)
    /\ generator = [data_loader |-> [cases |-> Cases,
                                     diagnoses |-> DiagnosesUsual],
                    user_progress |-> FALSE]
    /\ random \in {1, 2}

NextPipeline ==
    \/ GenerateSessionQuiz
    \/ StartGeneratedQuiz
    \/ RecordGeneratedAnswer
    \/ CalculateScores
    \/ ResetSession

SpecPipeline == InitPipeline /\ [][NextPipeline]_vars

StartedGenerated ==
    /\ last_call.op = "start_quiz_session"
    /\ Len(last_call.args[1].questions) >= 1

(* A generated quiz of standard or differential questions is accepted,
   and a session on it is answered and scored without an error. *)
StandardAndDifferentialSessions ==
    /\ (StartedGenerated
        /\ ~last_call.args[1].quiz_metadata.configuration.multi_case_matching)
          => last_call.raised = "None"
    /\ (scoring.quiz_data # <<>>
        /\ last_call.op \in {"record_answer", "calculate_scores"})
          => last_call.raised = "None"

(* C32: a quiz the generator returns with at least one question, in any
   mode, is accepted by start_quiz_session, and the session on it is
   answered and scored by calculate_scores without an error. *)
C32_GeneratedQuizIsScorable ==
    /\ StartedGenerated => last_call.raised = "None"
    /\ (scoring.quiz_data # <<>>
        /\ last_call.op \in {"record_answer", "calculate_scores"})
          => last_call.raised = "None"

(* A multi-case matching quiz of two questions is refused for a missing
   key. *)
C32_Witness ==
    /\ StartedGenerated
    /\ Len(last_call.args[1].questions) = 2
    /\ last_call.args[1].questions[1].question_type = "multi_case_matching"
    /\ last_call.raised = "question_missing_key"
    /\ scoring.quiz_data = <<>>

(***************************************************************************)
(* The streak a session leaves                                             *)
(***************************************************************************)

(* A session on two questions, scored into a UserProgress over several
   days: the answers are recorded in ascending question order, questions
   may be left out, and an answer is the correct one or another one. *)
StartStreakQuiz ==
    /\ scoring.quiz_data = <<>>
    /\ DoStartQuizSession(QuizTwo)
    /\ UNCHANGED <<frames, progress, Config, now, calls>>

RecordStreakAnswer ==
    /\ scoring.quiz_data # <<>>
    /\ \E question_number \in DOMAIN scoring.quiz_data[1].questions :
          /\ \A q \in DOMAIN scoring.user_answers : q < question_number
          /\ \E user_answer \in
                 {scoring.quiz_data[1].questions[question_number].correct_answer,
                  "Schizophrenia"} :
                DoRecordAnswer(question_number, user_answer, <<20>>)
    /\ UNCHANGED <<frames, progress, Config, now, calls>>

NextStreakSession ==
    \/ StartStreakQuiz
    \/ RecordStreakAnswer
    \/ CalculateScores
    \/ ResetSession
    \/ AdvanceDay

SpecStreakSession == InitScoring /\ [][NextStreakSession]_vars

(* The number of correct results at the end of the results. *)
TrailingCorrect(results) ==
    CHOOSE k \in 0..Len(results) :
        /\ \A i \in (Len(results) - k + 1)..Len(results) : results[i].is_correct
        /\ k < Len(results) => ~results[Len(results) - k].is_correct

(* C34: after calculate_scores with a progress object, on one calendar
   day, current_streak is the number of correct results at the end of the
   question order, plus the streak before the call only when every
   question was correct and the last correct answer before it was at most
   one day old; a wrong or unanswered question breaks the run where it
   stands. *)
C34_StreakAfterSession ==
    [][(/\ calls' = calls + 1
        /\ last_call'.op = "calculate_scores"
        /\ last_call'.raised = "None")
          => LET results == scoring'.question_results
                 before == progress.streak_data
                 extendable == \/ before.last_correct_date = NoDate
                               \/ now.day - before.last_correct_date <= 1
             IN  progress'.streak_data.current_streak
                     = TrailingCorrect(results)
                       + (IF TrailingCorrect(results) = Len(results)
                             /\ extendable
                          THEN before.current_streak ELSE 0)]_vars

(* A second question answered correctly after a wrong first one leaves a
   streak of one, whatever the streak was. *)
C34_Witness ==
    /\ last_call.op = "calculate_scores"
    /\ Len(scoring.question_results) = 2
    /\ ~scoring.question_results[1].is_correct
    /\ scoring.question_results[2].is_correct
    /\ progress.streak_data.current_streak = 1
    /\ progress.streak_data.longest_streak = 2

(***************************************************************************)
(* Sessions one after another on one Scoring object                        *)
(***************************************************************************)

(* The owner starts a quiz whether or not an earlier session was reset. *)
StartFurtherQuiz ==
    /\ \E quiz_data \in ScoredQuizzes : DoStartQuizSession(quiz_data)
    /\ UNCHANGED <<frames, progress, Config, now, calls>>

NextSessions ==
    \/ StartFurtherQuiz
    \/ RecordScoredAnswer
    \/ CalculateScores

SpecSessions == InitScoring /\ [][NextSessions]_vars

(* get_session_progression_report()['achievements_awarded'], as a set. *)
ReportedAchievements(s) == SeqRange(s.achievements_awarded)

(* C35: after calculate_scores the report's achievements_awarded holds
   every achievement the user earned through the scoring of the session,
   and, for a session scored right after it was started, nothing else:
   nothing that an earlier session on the same Scoring object earned. *)
C35_ReportListsSessionAchievements ==
    [][(/\ calls' = calls + 1
        /\ last_call'.op = "calculate_scores"
        /\ last_call'.raised = "None")
          => LET new == EarnedIds(progress') \ EarnedIds(progress)
             IN  /\ new \subseteq ReportedAchievements(scoring')
                 /\ last_call.op = "start_quiz_session"
                       => ReportedAchievements(scoring') \subseteq new]_vars

(* The streak achievement is earned by a scoring and the report does not
   list it. *)
C35_Witness ==
    /\ last_call.op = "calculate_scores"
    /\ "perfect_streak" \in EarnedIds(progress)
    /\ "perfect_streak" \notin ReportedAchievements(scoring)
    /\ "first_case" \in ReportedAchievements(scoring)

(* A session started after an earlier one was scored still reports the
   earlier session's achievements. *)
EarlierAchievementsReported ==
    /\ last_call.op = "start_quiz_session"
    /\ last_call.raised = "None"
    /\ scoring.user_answers = EmptyDict
    /\ scoring.achievements_awarded # <<>>

(* ------------------------------------------------------------------ *)
(* Clinical accuracy with specifiers (scoring.py)                      *)
(* ------------------------------------------------------------------ *)

(* A specifier dict is the sequence of its items in insertion order, each
   a specifier str and its importance; the argument is <<>> for None and
   <<dict>> for a dict. *)
Specifier(specifier, importance) ==
    [specifier |-> specifier, importance |-> importance]

(* The sum of importance over the items "specifier.lower() in user_clean"
   selects. *)
RECURSIVE specifier_score(_, _)
specifier_score(items, user_clean) ==
    IF items = <<>> THEN 0
    ELSE (IF Contains(user_clean, lower(Head(items).specifier))
          THEN Head(items).importance ELSE 0)
         + specifier_score(Tail(items), user_clean)

(* sum(specifiers.values()) *)
RECURSIVE sum_values(_)
sum_values(items) ==
    IF items = <<>> THEN 0
    ELSE Head(items).importance + sum_values(Tail(items))

(* The specifiers that matched, in order: the "Correct specifier" parts of
   the feedback. *)
matched_specifiers(items, user_clean) ==
    SelectSeq(items,
              LAMBDA item : Contains(user_clean, lower(item.specifier)))

(* 0.7, 0.5 and 0.3 in units of 1/FullScore. *)
BaseExact == 7 * (FullScore \div 10)
BaseSimilar == 5 * (FullScore \div 10)
BasePartlySimilar == 3 * (FullScore \div 10)
SpecifierShare == 3 * (FullScore \div 10)

(* The score and the parts of the feedback; raised is the exception the
   call ends with. _evaluate_partial is handed the question {}: it returns
   before reading it when the answers are equal, and question['case_metadata']
   raises KeyError otherwise. *)
calculate_clinical_accuracy_score(s, user_answer, correct_answer, specifiers) ==
    LET user_clean == lower(strip(user_answer))
        correct_clean == lower(strip(correct_answer))
        items == specifiers[1]
        sim == _calculate_diagnosis_similarity(s, user_answer, correct_answer)
        similarity == sim.ret
        exact == user_clean = correct_clean
        base_score ==
            IF exact THEN BaseExact
            ELSE IF 10 * similarity[1] >= 8 * similarity[2] THEN BaseSimilar
            ELSE IF 10 * similarity[1] >= 6 * similarity[2]
            THEN BasePartlySimilar
            ELSE 0
        main ==
            IF exact THEN "Correct main diagnosis"
            ELSE IF 10 * similarity[1] >= 8 * similarity[2]
            THEN "Similar diagnosis"
            ELSE IF 10 * similarity[1] >= 6 * similarity[2]
            THEN "Partially similar diagnosis"
            ELSE "Incorrect main diagnosis"
        total == sum_values(items)
        total_score ==
            CapScore(base_score
                     + (specifier_score(items, user_clean) * SpecifierShare)
                       \div total)
        fallback(r) ==
            [s |-> s, raised |-> "None", score |-> r.score,
             feedback |-> <<IF r.is_correct THEN "Correct" ELSE "Incorrect">>]
    IN IF specifiers = <<>> \/ specifiers[1] = <<>>
       THEN IF s.scoring_mode = "strict"
            THEN fallback([is_correct |-> exact,
                           score |-> IF exact THEN FullScore ELSE 0])
            ELSE IF s.scoring_mode = "lenient"
            THEN fallback(_evaluate_lenient(user_answer, correct_answer))
            ELSE IF exact
            THEN fallback([is_correct |-> TRUE, score |-> FullScore])
            ELSE [s |-> s, raised |-> "KeyError", score |-> 0,
                  feedback |-> <<>>]
       ELSE IF total = 0
       THEN [s |-> IF exact THEN s ELSE sim.s, raised |-> "ZeroDivisionError",
             score |-> 0, feedback |-> <<>>]
       ELSE [s |-> IF exact THEN s ELSE sim.s, raised |-> "None",
             score |-> total_score,
             feedback |-> <<main>> \o
                 [i \in DOMAIN matched_specifiers(items, user_clean) |->
                     matched_specifiers(items, user_clean)[i].specifier]]

(* Answers, and specifier arguments with non-negative importances: None,
   the empty dict, weighted specifiers, and specifiers of importance 0. *)
ClinicalAnswers ==
    {<<>>,
     Str(<<"major", "depressive", "disorder">>),
     Str(<<"Major", "Depression">>),
     Str(<<"Major", "Depressive">>),
     Str(<<"Major", "Depressive", "Disorder", "Single", "Episode">>),
     Str(<<"Major", "Depressive", "Disorder", "Single", "Episode", "severe">>)}

SingleEpisodeSpecifier == Str(<<"Single", "Episode">>)

ClinicalSpecifiers ==
    {<<>>,
     << <<>> >>,
     << <<Specifier(SingleEpisodeSpecifier, 2), Specifier(<<"severe">>, 1)>> >>,
     << <<Specifier(<<"severe">>, 1)>> >>,
     << <<Specifier(SingleEpisodeSpecifier, 0)>> >>,
     << <<Specifier(SingleEpisodeSpecifier, 0), Specifier(<<"severe">>, 0)>> >>}

CalculateClinicalAccuracyScore ==
    /\ \E user_answer \in ClinicalAnswers, correct_answer \in PartialCorrect,
          specifiers \in ClinicalSpecifiers :
         \E r \in {calculate_clinical_accuracy_score(
                       scoring, user_answer, correct_answer, specifiers)} :
            /\ Counted
            /\ scoring' = r.s
            /\ last_call' = Call("calculate_clinical_accuracy_score",
                                 <<user_answer, correct_answer, specifiers>>,
                                 r.raised,
                                 IF r.raised = "None"
                                 THEN <<[score |-> r.score,
                                         feedback |-> r.feedback]>>
                                 ELSE <<>>)
    /\ UNCHANGED <<frames, progress, Config, now>>

InitClinical ==
    /\ InitProgress
    /\ achievements = CatalogNone
    /\ difficulty_tiers = TiersNone
    /\ \E scoring_mode \in {"strict", "lenient", "partial"} :
         scoring = NewScoringWith(scoring_mode, DefaultPartialCreditConfig)

NextClinical ==
    \/ CalculateClinicalAccuracyScore

SpecClinical == InitClinical /\ [][NextClinical]_vars

ClinicalSpecifiersGiven ==
    /\ last_call.args[3] # <<>>
    /\ last_call.args[3][1] # <<>>

(* With specifiers whose importances do not sum to 0 the call returns, and
   its score lies in [0, 1]; without specifiers it returns in the strict
   and lenient modes with the score of that mode. *)
ClinicalScoreWhereDefined ==
    last_call.op = "calculate_clinical_accuracy_score" =>
        /\ (ClinicalSpecifiersGiven /\ sum_values(last_call.args[3][1]) > 0) =>
              /\ last_call.raised = "None"
              /\ last_call.ret[1].score \in 0..FullScore
              /\ last_call.ret[1].feedback # <<>>
        /\ (~ClinicalSpecifiersGiven /\ scoring.scoring_mode = "lenient") =>
              /\ last_call.raised = "None"
              /\ last_call.ret[1].score =
                     _evaluate_lenient(last_call.args[1],
                                       last_call.args[2]).score
        /\ (~ClinicalSpecifiersGiven /\ scoring.scoring_mode = "strict") =>
              /\ last_call.raised = "None"
              /\ last_call.ret[1].score \in {0, FullScore}

(* C38: calculate_clinical_accuracy_score returns a score in [0, 1] with
   feedback, and does not raise, for every answer, every scoring mode and
   every specifier map of non-negative weights, the absent and the empty
   map included. *)
C38_ClinicalScoreNeverRaises ==
    last_call.op = "calculate_clinical_accuracy_score" =>
        /\ last_call.raised = "None"
        /\ last_call.ret[1].score \in 0..FullScore
        /\ last_call.ret[1].feedback # <<>>

(* Partial mode, no specifiers, and an answer that is not the diagnosis:
   the call ends with KeyError. *)
C38_Witness ==
    /\ last_call.op = "calculate_clinical_accuracy_score"
    /\ scoring.scoring_mode = "partial"
    /\ ~ClinicalSpecifiersGiven
    /\ last_call.raised = "KeyError"

(* Specifiers of importance 0 only: the call ends with ZeroDivisionError. *)
ClinicalZeroWeights ==
    /\ last_call.op = "calculate_clinical_accuracy_score"
    /\ ClinicalSpecifiersGiven
    /\ last_call.raised = "ZeroDivisionError"

(* ------------------------------------------------------------------ *)
(* generate_quiz calls that interleave (quiz_generator.py)             *)
(* ------------------------------------------------------------------ *)

(* Two threads each call generate_quiz once, on one QuizGenerator or on
   two over the same data: every draw of either call is a draw from the
   random module, whose generator the process has once.  A thread is
   switched between the statements of generate_quiz: after random.seed,
   after random.sample, after each question of the loop.  The calls are
   standard ones, with a seed. *)
Threads == {1, 2}

InterleavedConfigs ==
    {QuizConfig(<<s>>, n, 3, sh, FALSE, <<>>, <<>>) :
        s \in {1, 2}, n \in {1, 2}, sh \in BOOLEAN}

Frame(config, pc, selected_cases, questions, ret) ==
    [config |-> config, pc |-> pc, selected_cases |-> selected_cases,
     questions |-> questions, ret |-> ret]

(* if 'seed' in config: random.seed(config['seed']) *)
GenerateQuizSeed(t) ==
    /\ t \notin DOMAIN frames
    /\ \E config \in InterleavedConfigs :
         /\ random' = seed(config, random)
         /\ frames' = frames @@ (t :> Frame(config, "select", <<>>, <<>>, <<>>))
    /\ UNCHANGED <<progress, achievements, difficulty_tiers, now, scoring,
                   last_call, calls, generator>>

(* The filter, and selected_cases = random.sample(filtered_cases,
   cases_needed). *)
GenerateQuizSelect(t) ==
    /\ t \in DOMAIN frames
    /\ frames[t].pc = "select"
    /\ \E selected_cases \in
           {With(frames[t].config, LAMBDA config :
            With(get_filtered_cases(
                     generator.data_loader.cases, config.categories,
                     unlocked_complexities(generator, progress, config)),
            LAMBDA filtered_cases :
                sample(filtered_cases,
                       questions_to_build(config, Len(filtered_cases)),
                       random)))} :
         /\ random' = selected_cases.x
         /\ frames' = [frames EXCEPT ![t].pc = "build",
                                     ![t].selected_cases = selected_cases.v]
    /\ UNCHANGED <<progress, achievements, difficulty_tiers, now, scoring,
                   last_call, calls, generator>>

(* One pass of "for i, case in enumerate(selected_cases)". *)
GenerateQuizBuild(t) ==
    /\ t \in DOMAIN frames
    /\ frames[t].pc = "build"
    /\ Len(frames[t].questions) < Len(frames[t].selected_cases)
    /\ \E question \in
           {_create_question(
                frames[t].selected_cases[Len(frames[t].questions) + 1],
                diagnosis_by_category(generator.data_loader.diagnoses),
                frames[t].config.num_choices,
                Len(frames[t].questions) + 1, random)} :
         /\ random' = question.x
         /\ frames' = [frames EXCEPT
                          ![t].questions = Append(@, question.v)]
    /\ UNCHANGED <<progress, achievements, difficulty_tiers, now, scoring,
                   last_call, calls, generator>>

(* After the loop: random.shuffle(questions) and the renumbering when
   shuffle is set, and the quiz is returned. *)
GenerateQuizReturn(t) ==
    /\ t \in DOMAIN frames
    /\ frames[t].pc = "build"
    /\ Len(frames[t].questions) = Len(frames[t].selected_cases)
    /\ \E questions \in
           {IF frames[t].config.shuffle
            THEN With(shuffle(frames[t].questions, random),
                      LAMBDA shuffled :
                          [v |-> renumber(shuffled.v), x |-> shuffled.x])
            ELSE [v |-> frames[t].questions, x |-> random]} :
         /\ random' = questions.x
         /\ \E quiz \in
                {[keys |-> QuizKeys,
                  questions_is_list |-> TRUE,
                  quiz_metadata |->
                      [total_questions |-> Len(questions.v),
                       num_choices |-> frames[t].config.num_choices,
                       configuration |->
                           [frames[t].config EXCEPT !.complexities =
                               unlocked_complexities(generator, progress,
                                                     frames[t].config)]],
                  questions |-> questions.v]} :
              /\ frames' = [frames EXCEPT ![t].pc = "done",
                                          ![t].ret = <<quiz>>]
              /\ last_call' = Call("generate_quiz", <<frames[t].config>>,
                                   "None", <<quiz>>)
    /\ UNCHANGED <<progress, achievements, difficulty_tiers, now, scoring,
                   calls, generator>>

InitInterleaved ==
    /\ progress = NewUserProgress
    /\ now = [day |-> 0, sec |-> 0]
    /\ last_call = NoCall
    /\ calls = 0
    /\ frames = NoFrames
    /\ achievements = CatalogNone
    /\ difficulty_tiers = TiersNone
    /\ scoring = NewScoring(FALSE)
    /\ generator = [data_loader |-> [cases |-> Cases,
                                     diagnoses |-> DiagnosesUsual],
                    user_progress |-> FALSE]
    /\ random \in {1, 2}

NextInterleaved ==
    \/ \E t \in Threads : GenerateQuizSeed(t)
    \/ \E t \in Threads : GenerateQuizSelect(t)
    \/ \E t \in Threads : GenerateQuizBuild(t)
    \/ \E t \in Threads : GenerateQuizReturn(t)

SpecInterleaved == InitInterleaved /\ [][NextInterleaved]_vars

(* The quiz the call of thread t returns when it runs alone: the random
   module's state before a seeded call does not enter it. *)
QuizAlone(t) ==
    generate_quiz(generator, progress, frames[t].config, 1).ret

Returning(t) == t \in DOMAIN frames /\ frames[t].pc = "done"

(* A call that no other call ran beside returns the quiz of its seed. *)
SoleCallReturnsQuizOfSeed ==
    \A t \in Threads :
        (Returning(t) /\ DOMAIN frames = {t}) => frames[t].ret = QuizAlone(t)

(* C39: when two seeded generate_quiz calls interleave their draws, each
   returns the quiz it returns when it runs alone with its seed. *)
C39_InterleavedCallsReturnQuizOfSeed ==
    \A t \in Threads : Returning(t) => frames[t].ret = QuizAlone(t)

(* Both calls have returned, and one of them another quiz than its seed's. *)
C39_Witness ==
    /\ \A t \in Threads : Returning(t)
    /\ \E t \in Threads : frames[t].ret # QuizAlone(t)

(* ------------------------------------------------------------------ *)
(* Specialty proficiency over many calls (progression.py)              *)
(* ------------------------------------------------------------------ *)

(* update_specialty_proficiency called again and again, for either
   category: the caller gives 1 XP for a correct diagnosis and none for a
   wrong one, so that the category's xp_earned is the number of calls with
   is_correct true. *)
PractiseCategory ==
    /\ \E category \in Categories, is_correct \in BOOLEAN :
          /\ category \in DOMAIN progress.specialties =>
                 progress.specialties[category].cases_completed < MaxPractice
          /\ DoUpdateSpecialtyProficiency(category, is_correct, 20,
                                          IF is_correct THEN 1 ELSE 0)
    /\ UNCHANGED <<frames, Config, now, scoring, calls>>

NextProficiency ==
    \/ PractiseCategory

SpecProficiency == Init /\ [][NextProficiency]_vars

(* The calls made for the category with is_correct true. *)
CorrectCallsFor(category) == progress.specialties[category].xp_earned

(* cases_completed goes up by one with every call, and level is
   min(10, floor(accuracy / 10) + 1) of the accuracy stored. *)
ProficiencyCountAndLevel ==
    /\ [][\A category \in Categories :
            (last_call'.op = "update_specialty_proficiency"
             /\ last_call'.args[1] = category) =>
                progress'.specialties[category].cases_completed =
                    (IF category \in DOMAIN progress.specialties
                     THEN progress.specialties[category].cases_completed
                     ELSE 0) + 1]_vars
    /\ [](\A category \in DOMAIN progress.specialties :
            With(progress.specialties[category], LAMBDA proficiency :
                 /\ proficiency.accuracy[2] = proficiency.cases_completed
                 /\ proficiency.level =
                        IF AccuracyTens(proficiency.accuracy) + 1 < 10
                        THEN AccuracyTens(proficiency.accuracy) + 1
                        ELSE 10))

(* C40: after any sequence of update_specialty_proficiency calls for a
   category, accuracy is 100 x (calls with is_correct true) /
   cases_completed, the count of correct calls having lost nothing, and
   level is min(10, floor(accuracy / 10) + 1) of that accuracy. *)
C40_AccuracyIsCorrectOverCompleted ==
    \A category \in DOMAIN progress.specialties :
        With(progress.specialties[category], LAMBDA proficiency :
             /\ proficiency.accuracy =
                    <<CorrectCallsFor(category), proficiency.cases_completed>>
             /\ proficiency.level =
                    IF (CorrectCallsFor(category) * 10)
                           \div proficiency.cases_completed + 1 < 10
                    THEN (CorrectCallsFor(category) * 10)
                             \div proficiency.cases_completed + 1
                    ELSE 10)

(* Four calls for a category, three of them correct, and an accuracy
   below 75. *)
C40_Witness ==
    \E category \in DOMAIN progress.specialties :
        /\ progress.specialties[category].cases_completed = 4
        /\ CorrectCallsFor(category) = 3
        /\ progress.specialties[category].accuracy[1] < 3

====
